---- MODULE Spec2Model ----
(***************************************************************************)
(* Model of the coaching core of ai-exercise-coach-vision-nlp:             *)
(*   - ExerciseClassifier (workers/exercise/exercise_classifier.py)        *)
(*   - CueEngine          (workers/coach/cue_engine.py)                    *)
(* Angles are integer degrees; an average of two angles is kept as their   *)
(* sum and compared with twice the threshold, which is exact.              *)
(* Time is in whole seconds.                                               *)
(***************************************************************************)
EXTENDS Integers, Sequences, FiniteSets, TLC

(***************************************************************************)
(* Bounds of the model                                                     *)
(***************************************************************************)
\* the frame clock stops advancing here
MaxTime == 3
\* total number of frames ingested in one behaviour
MaxFrames == 12
\* time.time() when the engine is constructed, and how far it advances
WallStart == 1000
MaxWall == 3
\* calls of the engine's operations in one behaviour
MaxCueOps == 3

(***************************************************************************)
(* ExerciseType, RepPhase (exercise_classifier.py:14-32)                   *)
(***************************************************************************)
\* current_exercise: Optional[ExerciseType]; "none" is Python's None
NoExercise == "none"
ExerciseType == {"push-up", "squat", "lunge", "plank", "jumping-jack", "unknown"}
RepPhase == {"rest", "starting", "eccentric", "bottom", "concentric", "top", "completed"}

\* Optional[float] timestamps: None
NoTime == -1

\* thresholds of __init__ and of the classification
history_length == 100
MinClassifyFrames == 10

(***************************************************************************)
(* Joint angles.  A joint of a frame is an integer angle in degrees, or    *)
(* Missing (one of its three keypoints is absent), or Degenerate (two of   *)
(* its keypoints coincide, so the cosine is 0/0).                          *)
(***************************************************************************)
Missing == -1
Degenerate == -2
\* numpy's nan: every comparison with it is false
NaN == -3

\* _calculate_angle: 180.0 when a point is missing; 0/0 gives nan, which
\* np.clip, np.arccos and np.degrees pass on; otherwise the angle
_calculate_angle(j) ==
    IF j = Missing THEN 180
    ELSE IF j = Degenerate THEN NaN
    ELSE j

\* _calculate_key_angles: the angle of each joint of the frame
_calculate_key_angles(f) ==
    [left_elbow  |-> _calculate_angle(f.left_elbow),
     right_elbow |-> _calculate_angle(f.right_elbow),
     left_knee   |-> _calculate_angle(f.left_knee),
     right_knee  |-> _calculate_angle(f.right_knee)]

\* twice the average of two angles (nan if either is nan)
Sum2(a, b) == IF a = NaN \/ b = NaN THEN NaN ELSE a + b
\* avg < t  and  avg > t, on twice the average
Below(s2, t) == s2 # NaN /\ s2 < 2 * t
Above(s2, t) == s2 # NaN /\ s2 > 2 * t

(***************************************************************************)
(* Frames.  A frame is what the classifier reads of a PoseData: the four   *)
(* joints that drive the FSMs, the outcome of the three geometric          *)
(* position tests on its keypoints, and its arrival number.                *)
(***************************************************************************)
Angles == {80, 110, 140, 150, 160, 170, 180}
JointValues == Angles \cup {Missing, Degenerate}

\* (left, right) pairs: equal on both sides, and a few unequal ones
JointPairs ==
    {<<a, a>> : a \in JointValues}
        \cup {<<140, 180>>, <<Missing, 110>>}

\* outcomes of (_is_pushup_position, _is_squat_position, _is_lunge_position)
PoseTests ==
    {<<FALSE, FALSE, FALSE>>, <<TRUE, FALSE, FALSE>>, <<TRUE, TRUE, TRUE>>,
     <<FALSE, TRUE, TRUE>>, <<FALSE, FALSE, TRUE>>}

Frame(e, k, p) ==
    [left_elbow |-> e[1], right_elbow |-> e[2],
     left_knee |-> k[1], right_knee |-> k[2],
     is_pushup |-> p[1], is_squat |-> p[2], is_lunge |-> p[3],
     low_confidence |-> FALSE]

\* frames whose elbows are visible, frames whose knees are, and frames that
\* pass some of the position tests
FrameInputs ==
    {Frame(e, <<Missing, Missing>>, <<FALSE, FALSE, FALSE>>) : e \in JointPairs}
    \cup {Frame(<<Missing, Missing>>, k, <<FALSE, FALSE, FALSE>>) : k \in JointPairs}
    \cup {Frame(<<140, 140>>, <<180, 180>>, p) : p \in PoseTests}

\* the exercises the tests assign: the three with an FSM and one without
FixtureExercises == {"push-up", "squat", "lunge", "plank"}

\* seconds between one frame and the next
FrameGaps == {0, 1}

(***************************************************************************)
(* State                                                                   *)
(***************************************************************************)
VARIABLES
    current_exercise,   \* ExerciseClassifier.current_exercise
    current_phase,      \* ExerciseClassifier.current_phase
    rep_count,          \* ExerciseClassifier.rep_count
    rep_history,        \* ExerciseClassifier.rep_history
    pose_history,       \* ExerciseClassifier.pose_history (arrival numbers)
    phase_start_time,   \* ExerciseClassifier.phase_start_time
    rep_start_time,     \* ExerciseClassifier.rep_start_time
    now,                \* timestamp of the latest frame
    frame_seq,          \* number of frames ingested so far
    last_op,            \* the operation that produced this state
    result,             \* the value returned by the last process_pose
    phase_trace,        \* phases current_phase went through in the last operation
    script,             \* progress of the scripted push-up of the tests
    starting_at         \* timestamp of the frame that entered STARTING in the
                        \* rep in progress, NoTime when the phase is rest

classifier_vars ==
    <<current_exercise, current_phase, rep_count, rep_history, pose_history,
      phase_start_time, rep_start_time, now, frame_seq, last_op, result,
      phase_trace, script, starting_at>>

\* the classifier object as one record
Classifier ==
    [current_exercise |-> current_exercise, current_phase |-> current_phase,
     rep_count |-> rep_count, rep_history |-> rep_history,
     pose_history |-> pose_history, phase_start_time |-> phase_start_time,
     rep_start_time |-> rep_start_time]

\* ExerciseClassifier.__init__
ClassifierInit ==
    [current_exercise |-> NoExercise, current_phase |-> "rest",
     rep_count |-> 0, rep_history |-> <<>>, pose_history |-> <<>>,
     phase_start_time |-> NoTime, rep_start_time |-> NoTime]

NoResult == [kind |-> "none"]

(***************************************************************************)
(* ExerciseClassifier: classification                                      *)
(***************************************************************************)
\* _classify_exercise: unknown below 10 buffered frames, then the first
\* position test that passes, in the order push-up, squat, lunge
_classify_exercise(c, f) ==
    IF Len(c.pose_history) < MinClassifyFrames THEN "unknown"
    ELSE IF f.is_pushup THEN "push-up"
    ELSE IF f.is_squat THEN "squat"
    ELSE IF f.is_lunge THEN "lunge"
    ELSE "unknown"

(***************************************************************************)
(* ExerciseClassifier: rep FSM                                             *)
(***************************************************************************)
\* _transition_phase taking every transition for the start of the rep
_transition_phase_restamps(c, new_phase, current_time) ==
    [c EXCEPT !.current_phase = new_phase,
              !.phase_start_time = current_time,
              !.rep_start_time = current_time]

\* _transition_phase
_transition_phase(c, new_phase, current_time) ==
    [c EXCEPT !.current_phase = new_phase,
              !.phase_start_time = current_time,
              !.rep_start_time =
                  IF new_phase = "starting" THEN current_time ELSE @]

\* _update_pushup_fsm written with independent ifs: one frame falls through
\* every threshold it satisfies
PushupNextFallsThrough(phase, angles) ==
    LET a  == Sum2(angles.left_elbow, angles.right_elbow)
        p1 == IF phase = "rest" /\ Below(a, 150) THEN "starting" ELSE phase
        p2 == IF p1 = "starting" /\ Below(a, 120) THEN "eccentric" ELSE p1
        p3 == IF p2 = "eccentric" /\ Below(a, 90) THEN "bottom" ELSE p2
        p4 == IF p3 = "bottom" /\ Above(a, 100) THEN "concentric" ELSE p3
        p5 == IF p4 = "concentric" /\ Above(a, 150) THEN "top" ELSE p4
    IN  IF p5 = "top" /\ Above(a, 160) THEN "completed" ELSE p5

\* _update_pushup_fsm: the phase the frame moves to (the same phase if no
\* threshold fires); one if/elif chain on the current phase
PushupNext(phase, angles) ==
    LET avg_elbow_angle == Sum2(angles.left_elbow, angles.right_elbow)
    IN  CASE phase = "rest"       /\ Below(avg_elbow_angle, 150) -> "starting"
          [] phase = "starting"   /\ Below(avg_elbow_angle, 120) -> "eccentric"
          [] phase = "eccentric"  /\ Below(avg_elbow_angle, 90)  -> "bottom"
          [] phase = "bottom"     /\ Above(avg_elbow_angle, 100) -> "concentric"
          [] phase = "concentric" /\ Above(avg_elbow_angle, 150) -> "top"
          [] phase = "top"        /\ Above(avg_elbow_angle, 160) -> "completed"
          [] OTHER -> phase

\* _update_squat_fsm with thresholds that fire at the edge itself
SquatNextInclusive(phase, angles) ==
    LET a == Sum2(angles.left_knee, angles.right_knee)
        below(t) == a # NaN /\ a <= 2 * t
        above(t) == a # NaN /\ a >= 2 * t
    IN  CASE phase = "rest"       /\ below(160) -> "starting"
          [] phase = "starting"   /\ below(130) -> "eccentric"
          [] phase = "eccentric"  /\ below(100) -> "bottom"
          [] phase = "bottom"     /\ above(110) -> "concentric"
          [] phase = "concentric" /\ above(150) -> "top"
          [] phase = "top"        /\ above(170) -> "completed"
          [] OTHER -> phase

\* _update_squat_fsm
SquatNext(phase, angles) ==
    LET avg_knee_angle == Sum2(angles.left_knee, angles.right_knee)
    IN  CASE phase = "rest"       /\ Below(avg_knee_angle, 160) -> "starting"
          [] phase = "starting"   /\ Below(avg_knee_angle, 130) -> "eccentric"
          [] phase = "eccentric"  /\ Below(avg_knee_angle, 100) -> "bottom"
          [] phase = "bottom"     /\ Above(avg_knee_angle, 110) -> "concentric"
          [] phase = "concentric" /\ Above(avg_knee_angle, 150) -> "top"
          [] phase = "top"        /\ Above(avg_knee_angle, 170) -> "completed"
          [] OTHER -> phase

\* _update_lunge_fsm: the left knee alone
LungeNext(phase, angles) ==
    LET front_knee_angle == Sum2(angles.left_knee, angles.left_knee)
    IN  CASE phase = "rest"       /\ Below(front_knee_angle, 160) -> "starting"
          [] phase = "starting"   /\ Below(front_knee_angle, 130) -> "eccentric"
          [] phase = "eccentric"  /\ Below(front_knee_angle, 100) -> "bottom"
          [] phase = "bottom"     /\ Above(front_knee_angle, 110) -> "concentric"
          [] phase = "concentric" /\ Above(front_knee_angle, 150) -> "top"
          [] phase = "top"        /\ Above(front_knee_angle, 170) -> "completed"
          [] OTHER -> phase

\* the FSM of each exercise that has one
FsmNext(exercise, phase, angles) ==
    CASE exercise = "push-up" -> PushupNext(phase, angles)
      [] exercise = "squat"   -> SquatNext(phase, angles)
      [] exercise = "lunge"   -> LungeNext(phase, angles)
      [] OTHER -> phase

\* _update_rep_fsm: nothing for unknown; phase_start_time is initialised;
\* then the exercise's FSM (plank and jumping-jack have none)
_update_rep_fsm(c, f, current_time) ==
    IF c.current_exercise = "unknown" THEN c
    ELSE
        LET c1 == IF c.phase_start_time = NoTime
                  THEN [c EXCEPT !.phase_start_time = current_time] ELSE c
            next == FsmNext(c1.current_exercise, c1.current_phase,
                            _calculate_key_angles(f))
        IN  IF next = c1.current_phase THEN c1
            ELSE _transition_phase(c1, next, current_time)

(***************************************************************************)
(* ExerciseClassifier: rep completion and scores                           *)
(***************************************************************************)
\* the smaller and the larger of two integers
Min(a, b) == IF a < b THEN a ELSE b
Max(a, b) == IF a > b THEN a ELSE b
Abs(a) == IF a < 0 THEN 0 - a ELSE a

\* the last n elements of a sequence
LastN(s, n) == IF Len(s) <= n THEN s ELSE SubSeq(s, Len(s) - n + 1, Len(s))

\* _identify_form_issues: with more than 10 buffered frames, one issue when
\* more than 5 of the last 10 have confidence below 0.8
_identify_form_issues(c) ==
    IF Len(c.pose_history) > 10
           /\ Cardinality({i \in DOMAIN LastN(c.pose_history, 10) :
                  LastN(c.pose_history, 10)[i].low_confidence}) > 5
    THEN <<"Poor pose detection quality">>
    ELSE <<>>

\* _calculate_form_score
_calculate_form_score(c) ==
    Max(0, Min(100, 85 - Len(_identify_form_issues(c)) * 5))

\* a _calculate_tempo_score without the max(0.0, ...)
_calculate_tempo_score_unclamped(rep_duration) ==
    IF Abs(rep_duration - 3) <= 1 THEN 100
    ELSE 100 - (Abs(rep_duration - 3) - 1) * 20

\* _calculate_tempo_score: ideal 3 s, tolerance 1 s, 20 points a second
_calculate_tempo_score(rep_duration) ==
    IF Abs(rep_duration - 3) <= 1 THEN 100
    ELSE Max(0, 100 - (Abs(rep_duration - 3) - 1) * 20)

\* _calculate_rom_score
_calculate_rom_score == 90

\* _complete_rep counting the rep a second time
_complete_rep_counts_twice(c, timestamp) ==
    IF c.rep_start_time = NoTime THEN c
    ELSE [c EXCEPT !.rep_count = @ + 2,
                   !.rep_history = Append(@, [rep_number |-> c.rep_count + 2]),
                   !.current_phase = "rest",
                   !.rep_start_time = NoTime,
                   !.phase_start_time = NoTime]

\* _complete_rep raises: rep_count is already incremented when the
\* subtraction of line 458 meets a timestamp that is None
_complete_rep_raises(c, timestamp) ==
    c.rep_start_time # NoTime /\ timestamp = NoTime

\* _complete_rep: nothing when rep_start_time is None; what was assigned
\* before the exception when it raises
_complete_rep(c, timestamp) ==
    IF c.rep_start_time = NoTime THEN c
    ELSE IF _complete_rep_raises(c, timestamp)
    THEN [c EXCEPT !.rep_count = @ + 1]
    ELSE
        LET metrics ==
                [rep_number  |-> c.rep_count + 1,
                 duration    |-> timestamp - c.rep_start_time,
                 form_score  |-> _calculate_form_score(c),
                 tempo_score |-> _calculate_tempo_score(timestamp - c.rep_start_time),
                 rom_score   |-> _calculate_rom_score,
                 issues      |-> _identify_form_issues(c)]
        IN  [c EXCEPT !.rep_count = @ + 1,
                      !.rep_history = Append(@, metrics),
                      !.current_phase = "rest",
                      !.rep_start_time = NoTime,
                      !.phase_start_time = NoTime]

(***************************************************************************)
(* ExerciseClassifier: process_pose and reset                              *)
(***************************************************************************)
\* pose_history.append(pose_data) that pops the newest frame when full
AppendPosePopsNewest(c, f, seq) ==
    LET h == Append(c.pose_history,
                    [seq |-> seq, low_confidence |-> f.low_confidence])
    IN  [c EXCEPT !.pose_history =
            IF Len(h) > history_length THEN SubSeq(h, 1, Len(h) - 1) ELSE h]

\* pose_history.append(pose_data), and pop(0) beyond history_length
AppendPose(c, f, seq) ==
    LET h == Append(c.pose_history,
                    [seq |-> seq, low_confidence |-> f.low_confidence])
    IN  [c EXCEPT !.pose_history =
            IF Len(h) > history_length THEN Tail(h) ELSE h]

\* process_pose classifying on every frame
ClassifyAlways(c, f) ==
    [c EXCEPT !.current_exercise = _classify_exercise(c, f)]

\* the classification step of process_pose: only when no exercise is set
ClassifyIfUnset(c, f) ==
    IF c.current_exercise = NoExercise
    THEN [c EXCEPT !.current_exercise = _classify_exercise(c, f)]
    ELSE c

\* a sequence without immediate repetitions of its elements
RECURSIVE Dedup(_)
Dedup(s) ==
    IF Len(s) <= 1 THEN s
    ELSE IF s[1] = s[2] THEN Dedup(Tail(s))
    ELSE <<s[1]>> \o Dedup(Tail(s))

\* Python's truth value of an Optional[float]: None and 0.0 are false
Truthy(t) == t # NoTime /\ t # 0

\* _calculate_current_metrics raises: the subtraction of line 528 on a
\* timestamp that is None
_calculate_current_metrics_raises(timestamp) == timestamp = NoTime

\* _calculate_current_metrics: the two durations (the angles and the
\* confidence are copied from the frame)
_calculate_current_metrics(c, timestamp) ==
    [phase_duration |-> IF Truthy(c.phase_start_time)
                        THEN timestamp - c.phase_start_time ELSE 0,
     rep_duration   |-> IF Truthy(c.rep_start_time)
                        THEN timestamp - c.rep_start_time ELSE 0]

\* _get_form_feedback
_get_form_feedback(c, f) ==
    LET angles == _calculate_key_angles(f)
        deep == c.current_phase \in {"eccentric", "bottom"}
    IN  IF c.current_exercise = "push-up" /\ deep
               /\ Above(Sum2(angles.left_elbow, angles.right_elbow), 120)
        THEN <<"Go lower for better range of motion">>
        ELSE IF c.current_exercise = "squat" /\ deep
               /\ Above(Sum2(angles.left_knee, angles.right_knee), 120)
        THEN <<"Squat deeper for full range of motion">>
        ELSE <<>>

\* the dict process_pose returns: the seven keys of the try body, or the
\* two of the except branch when a step raised
FrameResult(c, f, rep_completed, raised, timestamp) ==
    IF raised
    THEN [kind |-> "error", error |-> "TypeError", timestamp |-> timestamp]
    ELSE [kind |-> "result",
          exercise_type |-> c.current_exercise,
          rep_count |-> c.rep_count,
          current_phase |-> c.current_phase,
          rep_completed |-> rep_completed,
          metrics |-> _calculate_current_metrics(c, timestamp),
          form_feedback |-> _get_form_feedback(c, f),
          timestamp |-> timestamp]

\* process_pose: the new state, the returned dict and the phases the tick
\* went through (before, after the FSM, after the completion)
process_pose(c, f, seq, timestamp) ==
    LET c1 == AppendPose(c, f, seq)
        c2 == ClassifyIfUnset(c1, f)
        previous_phase == c2.current_phase
        c3 == _update_rep_fsm(c2, f, timestamp)
        rep_completed ==
            previous_phase # "completed" /\ c3.current_phase = "completed"
        c4 == IF rep_completed THEN _complete_rep(c3, timestamp) ELSE c3
        raised == (rep_completed /\ _complete_rep_raises(c3, timestamp))
                      \/ _calculate_current_metrics_raises(timestamp)
    IN  [state  |-> c4,
         result |-> FrameResult(c4, f, rep_completed, raised, timestamp),
         trace  |-> Dedup(<<previous_phase, c3.current_phase, c4.current_phase>>)]

\* reset that leaves the counter and the histories as they are
reset_keeps_count(c) ==
    [c EXCEPT !.current_exercise = NoExercise, !.current_phase = "rest",
              !.phase_start_time = NoTime, !.rep_start_time = NoTime]

\* reset
reset(c) ==
    [current_exercise |-> NoExercise, current_phase |-> "rest",
     rep_count |-> 0, rep_history |-> <<>>, pose_history |-> <<>>,
     phase_start_time |-> NoTime, rep_start_time |-> NoTime]

(***************************************************************************)
(* CueEngine state                                                         *)
(***************************************************************************)
VARIABLES
    active_cues,        \* CueEngine.active_cues
    cue_history,        \* CueEngine.cue_history
    last_cue_times,     \* CueEngine.last_cue_times
    wall,               \* time.time()
    cue_op,             \* the CueEngine operation that produced this state
    returned,           \* the list returned by the last process_analysis_data
    emitted,            \* per category, the last two times process returned a cue
    cue_ops,            \* calls of the engine's operations so far
    emission_log,       \* every cue handed to _add_cue so far, in order
    cue_trace           \* what the last process or dismiss call went through

cue_vars ==
    <<active_cues, cue_history, last_cue_times, wall, cue_op, returned, emitted,
      cue_ops, emission_log, cue_trace>>

(***************************************************************************)
(* A call of a function that reads no object state: its arguments and,     *)
(* once it has returned, its result                                        *)
(***************************************************************************)
VARIABLES
    call                \* [fn, arguments, done, results]

pure_vars == <<call>>

NoCall == [fn |-> "none"]

(***************************************************************************)
(* The worker's event loop: the task of the pose.result subscription and   *)
(* the task of the exercise.control subscription, each running its handler *)
(* for one message at a time                                               *)
(***************************************************************************)
VARIABLES
    loop                \* [running, pose_pc, ctl_pc, ...], see LoopInit

loop_vars == <<loop>>

vars == <<classifier_vars, cue_vars, pure_vars, loop_vars>>

(***************************************************************************)
(* The scripted push-up of test_complete_rep_cycle: seven frames whose     *)
(* elbows, equal on both sides, are at these angles.  script.pos counts    *)
(* the frames of the script fed in a row to a push-up session that was in  *)
(* phase rest; n and h are rep_count and len(rep_history) at its start.    *)
(***************************************************************************)
angle_sequence == <<160, 140, 110, 80, 110, 150, 170>>

NoScript == [pos |-> 0, n |-> 0, h |-> 0]

ScriptStep(f) ==
    LET matches(k) == f.left_elbow = angle_sequence[k]
                          /\ f.right_elbow = angle_sequence[k]
    IN  IF script.pos \in 1..(Len(angle_sequence) - 1) /\ matches(script.pos + 1)
        THEN [script EXCEPT !.pos = @ + 1]
        ELSE IF current_exercise = "push-up" /\ current_phase = "rest" /\ matches(1)
        THEN [pos |-> 1, n |-> rep_count, h |-> Len(rep_history)]
        ELSE NoScript

(***************************************************************************)
(* Classifier actions                                                      *)
(***************************************************************************)
\* the frame that took the phase to STARTING is remembered until the phase
\* is rest again
EnteredStarting(before, after, timestamp) ==
    IF before # "starting" /\ after = "starting" THEN timestamp
    ELSE IF after = "rest" THEN NoTime
    ELSE starting_at

SetClassifier(c, timestamp) ==
    /\ starting_at' = EnteredStarting(current_phase, c.current_phase, timestamp)
    /\ current_exercise' = c.current_exercise
    /\ current_phase' = c.current_phase
    /\ rep_count' = c.rep_count
    /\ rep_history' = c.rep_history
    /\ pose_history' = c.pose_history
    /\ phase_start_time' = c.phase_start_time
    /\ rep_start_time' = c.rep_start_time

\* handle_pose_result / the analyze endpoint: one frame, gap seconds after
\* the one before, through process_pose
Ingest(f, gap) ==
    /\ frame_seq < MaxFrames
    /\ now + gap <= MaxTime
    /\ \E r \in {process_pose(Classifier, f, frame_seq + 1, now + gap)} :
           /\ SetClassifier(r.state, now + gap)
           /\ result' = r.result
           /\ phase_trace' = r.trace
    /\ script' = ScriptStep(f)
    /\ now' = now + gap
    /\ frame_seq' = frame_seq + 1
    /\ last_op' = "process_pose"
    /\ UNCHANGED <<cue_vars, pure_vars, loop_vars>>

\* handle_exercise_control "reset" / the reset endpoint
Reset ==
    /\ SetClassifier(reset(Classifier), now)
    /\ last_op' = "reset"
    /\ phase_trace' = Dedup(<<current_phase, "rest">>)
    /\ script' = NoScript
    /\ UNCHANGED <<now, frame_seq, result, cue_vars, pure_vars, loop_vars>>

\* the tests assign current_exercise directly (the worker's set_exercise
\* command does nothing), on a classifier that has no exercise yet
SetExercise(e) ==
    /\ current_exercise = NoExercise
    /\ current_exercise' = e
    /\ last_op' = "set_exercise"
    /\ phase_trace' = <<current_phase>>
    /\ script' = NoScript
    /\ UNCHANGED <<current_phase, rep_count, rep_history, pose_history,
                   phase_start_time, rep_start_time, now, frame_seq, result,
                   starting_at, cue_vars, pure_vars, loop_vars>>

(***************************************************************************)
(* CueEngine: catalog and configuration                                    *)
(***************************************************************************)
CueTypes == {"safety", "form", "tempo", "motivation", "instruction"}

\* CuePriority
CRITICAL == 10
HIGH == 8
MEDIUM == 5
LOW == 3

\* CueEngine.__init__
max_active_cues == 3
cue_expiry_time == 10
cue_history_length == 50

\* Optional[str] body_part: None
NoBodyPart == "None"

\* one catalog entry; msg20 is message[:20]
Template(type, priority, body_part, msg20) ==
    [type |-> type, priority |-> priority, body_part |-> body_part, msg20 |-> msg20]

\* _load_cue_templates
cue_templates ==
    [knee_valgus |-> Template("safety", CRITICAL, "knees", "Keep your knees alig"),
     excessive_forward_lean |-> Template("safety", CRITICAL, "torso", "Avoid leaning too fa"),
     hyperextension |-> Template("safety", CRITICAL, "joints", "Don't lock your join"),
     shallow_squat |-> Template("form", HIGH, "legs", "Go deeper for full r"),
     incomplete_pushup |-> Template("form", HIGH, "chest", "Lower your chest clo"),
     rounded_back |-> Template("form", HIGH, "back", "Keep your back strai"),
     dropped_shoulders |-> Template("form", MEDIUM, "shoulders", "Keep your shoulders "),
     too_fast |-> Template("tempo", MEDIUM, NoBodyPart, "Slow down and contro"),
     too_slow |-> Template("tempo", MEDIUM, NoBodyPart, "Pick up the pace sli"),
     inconsistent_tempo |-> Template("tempo", MEDIUM, NoBodyPart, "Try to maintain cons"),
     good_form |-> Template("motivation", LOW, NoBodyPart, "Excellent form! Keep"),
     halfway_encouragement |-> Template("motivation", LOW, NoBodyPart, "You're halfway there"),
     final_push |-> Template("motivation", LOW, NoBodyPart, "Last few reps! Give "),
     set_complete |-> Template("motivation", LOW, NoBodyPart, "Great set! Take a mo"),
     breathing_reminder |-> Template("instruction", MEDIUM, NoBodyPart, "Remember to breathe "),
     core_engagement |-> Template("instruction", MEDIUM, "core", "Engage your core thr")]

\* _load_throttle_rules: min_interval of each category, in seconds
throttle_rules ==
    [safety |-> 2, form |-> 5, tempo |-> 8, motivation |-> 15, instruction |-> 10]

\* the keys last_cue_times is read with; get(key, 0) of an absent key is 0
CueTimeKeys == CueTypes \cup {"breathing", "core"}

\* the engine object as one record
Engine ==
    [active_cues |-> active_cues, cue_history |-> cue_history,
     last_cue_times |-> last_cue_times]

\* CueEngine.__init__
EngineInit ==
    [active_cues |-> <<>>, cue_history |-> <<>>,
     last_cue_times |-> [k \in CueTimeKeys |-> 0]]

\* _create_cue_from_template; the id is template_int(timestamp)_session
_create_cue_from_template(template_name, timestamp, context) ==
    LET template == cue_templates[template_name]
    IN  [id |-> <<template_name, timestamp, context.session_id>>,
         type |-> template.type,
         priority |-> template.priority,
         body_part |-> template.body_part,
         msg20 |-> template.msg20,
         timestamp |-> timestamp,
         expires_at |-> timestamp + cue_expiry_time]

(***************************************************************************)
(* CueEngine: candidate generation                                         *)
(***************************************************************************)
\* angles.get(name, 180): an absent key reads as 180
AngleGet(a) == IF a = Missing THEN 180 ELSE a

\* _check_safety_issues
_check_safety_issues(angles, exercise_type, context, current_time) ==
    IF exercise_type = "squats" THEN
        LET left_knee == AngleGet(angles.left_knee)
            right_knee == AngleGet(angles.right_knee)
        IN  IF left_knee # NaN /\ right_knee # NaN
                   /\ Abs(left_knee - right_knee) > 15
            THEN <<_create_cue_from_template("knee_valgus", current_time, context)>>
            ELSE <<>>
    ELSE IF exercise_type = "push-ups" THEN
        LET left_elbow == AngleGet(angles.left_elbow)
            right_elbow == AngleGet(angles.right_elbow)
        IN  IF (left_elbow # NaN /\ left_elbow > 175)
                   \/ (right_elbow # NaN /\ right_elbow > 175)
            THEN <<_create_cue_from_template("hyperextension", current_time, context)>>
            ELSE <<>>
    ELSE <<>>

\* "lower" in feedback.lower(), for the feedback strings of the classifier
HasLower(feedback) == feedback = "Go lower for better range of motion"

\* the loop of _analyze_form_issues over form_feedback
RECURSIVE FeedbackCues(_, _, _, _)
FeedbackCues(form_feedback, exercise_type, context, current_time) ==
    IF form_feedback = <<>> THEN <<>>
    ELSE (IF HasLower(Head(form_feedback))
          THEN <<_create_cue_from_template(
                     IF exercise_type = "squats" THEN "shallow_squat"
                     ELSE "incomplete_pushup", current_time, context)>>
          ELSE <<>>)
         \o FeedbackCues(Tail(form_feedback), exercise_type, context, current_time)

\* _analyze_form_issues
_analyze_form_issues(angles, form_feedback, exercise_type, context, current_time) ==
    (IF exercise_type = "squats" THEN
        IF Above(Sum2(AngleGet(angles.left_knee), AngleGet(angles.right_knee)), 120)
               /\ context.exercise_phase \in {"eccentric", "bottom"}
        THEN <<_create_cue_from_template("shallow_squat", current_time, context)>>
        ELSE <<>>
     ELSE IF exercise_type = "push-ups" THEN
        IF Above(Sum2(AngleGet(angles.left_elbow), AngleGet(angles.right_elbow)), 120)
               /\ context.exercise_phase \in {"eccentric", "bottom"}
        THEN <<_create_cue_from_template("incomplete_pushup", current_time, context)>>
        ELSE <<>>
     ELSE <<>>)
    \o FeedbackCues(form_feedback, exercise_type, context, current_time)

\* _analyze_tempo
_analyze_tempo(analysis_data, context, current_time) ==
    IF analysis_data.rep_duration > 0 /\ analysis_data.rep_duration < 2
    THEN <<_create_cue_from_template("too_fast", current_time, context)>>
    ELSE IF analysis_data.rep_duration > 6
    THEN <<_create_cue_from_template("too_slow", current_time, context)>>
    ELSE <<>>

\* the sum of a sequence of integers
RECURSIVE SeqSum(_)
SeqSum(s) == IF s = <<>> THEN 0 ELSE Head(s) + SeqSum(Tail(s))

\* _generate_motivation; target_reps 0 stands for None; form_scores is the
\* sequence of the dict's values, "overall" first when present
_generate_motivation(context, current_time) ==
    (IF context.target_reps # 0 /\ context.rep_count > 0 THEN
        IF 4 * context.target_reps <= 10 * context.rep_count
               /\ 10 * context.rep_count <= 6 * context.target_reps
        THEN <<_create_cue_from_template("halfway_encouragement", current_time, context)>>
        ELSE IF 10 * context.rep_count >= 8 * context.target_reps
        THEN <<_create_cue_from_template("final_push", current_time, context)>>
        ELSE <<>>
     ELSE <<>>)
    \o
    (IF context.form_scores # <<>>
           /\ SeqSum(context.form_scores) > 85 * Len(context.form_scores)
     THEN <<_create_cue_from_template("good_form", current_time, context)>>
     ELSE <<>>)

\* _generate_instructions
_generate_instructions(e, context, analysis_phase, current_time) ==
    (IF analysis_phase \in {"eccentric", "concentric"} /\ context.session_duration > 60
           /\ current_time - e.last_cue_times["breathing"] > 30
     THEN <<_create_cue_from_template("breathing_reminder", current_time, context)>>
     ELSE <<>>)
    \o
    (IF context.current_exercise \in {"squats", "lunges", "push-ups"}
           /\ current_time - e.last_cue_times["core"] > 45
     THEN <<_create_cue_from_template("core_engagement", current_time, context)>>
     ELSE <<>>)

\* None as the value of an angle in analysis_data
Null == -4

\* _generate_cues raises: abs(left_knee - right_knee) of the safety check
\* with a None knee; left_elbow > 175 or right_elbow > 175 of the safety
\* check, or else the average of the form check, with a None elbow
_generate_cues_raises(analysis_data) ==
    \/ /\ analysis_data.exercise_type = "squats"
       /\ Null \in {analysis_data.angles.left_knee, analysis_data.angles.right_knee}
    \/ /\ analysis_data.exercise_type = "push-ups"
       /\ Null \in {analysis_data.angles.left_elbow, analysis_data.angles.right_elbow}

\* _generate_cues: safety, form, tempo, motivation, instruction, in this order
_generate_cues(e, analysis_data, context, current_time) ==
    _check_safety_issues(analysis_data.angles, analysis_data.exercise_type,
                         context, current_time)
    \o _analyze_form_issues(analysis_data.angles, analysis_data.form_feedback,
                            analysis_data.exercise_type, context, current_time)
    \o _analyze_tempo(analysis_data, context, current_time)
    \o _generate_motivation(context, current_time)
    \o _generate_instructions(e, context, analysis_data.current_phase, current_time)

(***************************************************************************)
(* CueEngine: filter, prioritise, throttle, admit                          *)
(***************************************************************************)
\* the duplicate key f"{type}_{body_part}_{message[:20]}"
CueKey(cue) == <<cue.type, cue.body_part, cue.msg20>>

\* the dict unique_cues, as the sequence of its values in insertion order:
\* a later cue replaces the one of its key only if its priority is higher
RECURSIVE UniqueCues(_, _)
UniqueCues(cues, unique) ==
    IF cues = <<>> THEN unique
    ELSE
        LET cue == Head(cues)
            same == {i \in DOMAIN unique : CueKey(unique[i]) = CueKey(cue)}
        IN  UniqueCues(Tail(cues),
                IF same = {} THEN Append(unique, cue)
                ELSE [i \in DOMAIN unique |->
                         IF i \in same /\ cue.priority > unique[i].priority
                         THEN cue ELSE unique[i]])

\* a sort by priority, highest first, that puts a cue before the cues of
\* its own priority that came earlier
RECURSIVE SortByPriorityUnstable(_)
SortByPriorityUnstable(cues) ==
    IF cues = <<>> THEN <<>>
    ELSE
        LET n == Len(cues)
            sorted == SortByPriorityUnstable(SubSeq(cues, 1, n - 1))
            x == cues[n]
            k == Cardinality({i \in DOMAIN sorted : sorted[i].priority > x.priority})
        IN  SubSeq(sorted, 1, k) \o <<x>> \o SubSeq(sorted, k + 1, Len(sorted))

\* sorted(..., key=priority, reverse=True): stable, highest first
RECURSIVE SortByPriority(_)
SortByPriority(cues) ==
    IF cues = <<>> THEN <<>>
    ELSE
        LET n == Len(cues)
            sorted == SortByPriority(SubSeq(cues, 1, n - 1))
            x == cues[n]
            \* x goes after every element whose priority is at least its own
            k == Cardinality({i \in DOMAIN sorted : sorted[i].priority >= x.priority})
        IN  SubSeq(sorted, 1, k) \o <<x>> \o SubSeq(sorted, k + 1, Len(sorted))

\* _should_include_cue that looks at the feedback level before the type
_should_include_cue_minimal_first(cue, context) ==
    IF context.feedback_level = "minimal" THEN FALSE
    ELSE IF cue.type = "safety" THEN TRUE
    ELSE IF cue.type = "form" /\ context.form_overall > 90 THEN FALSE
    ELSE IF context.fatigue_level > 8 /\ cue.type = "tempo" THEN FALSE
    ELSE TRUE

\* _should_include_cue whose thresholds are inclusive
_should_include_cue_inclusive(cue, context) ==
    IF cue.type = "safety" THEN TRUE
    ELSE IF cue.type = "motivation" /\ context.feedback_level = "minimal" THEN FALSE
    ELSE IF cue.type = "form" /\ context.form_overall >= 90 THEN FALSE
    ELSE IF context.fatigue_level >= 8 /\ cue.type = "tempo" THEN FALSE
    ELSE TRUE

\* _should_include_cue; fatigue_level is in tenths; feedback_level and
\* form_overall carry "none" / 0 for an absent key
_should_include_cue(cue, context) ==
    IF cue.type = "safety" THEN TRUE
    ELSE IF cue.type = "motivation" /\ context.feedback_level = "minimal" THEN FALSE
    ELSE IF cue.type = "form" /\ context.form_overall > 90 THEN FALSE
    ELSE IF context.fatigue_level > 8 /\ cue.type = "tempo" THEN FALSE
    ELSE TRUE

\* _filter_and_prioritize
_filter_and_prioritize(cues, context) ==
    SelectSeq(SortByPriority(UniqueCues(cues, <<>>)),
              LAMBDA cue : _should_include_cue(cue, context))

\* _apply_throttling: the admitted cues and the updated last_cue_times
RECURSIVE ThrottleLoop(_, _, _, _)
ThrottleLoop(cues, last, current_time, throttled) ==
    IF cues = <<>> THEN [cues |-> throttled, last_cue_times |-> last]
    ELSE
        LET cue == Head(cues)
            min_interval == throttle_rules[cue.type]
            last_time == last[cue.type]
        IN  IF current_time - last_time >= min_interval
            THEN ThrottleLoop(Tail(cues), [last EXCEPT ![cue.type] = current_time],
                              current_time, Append(throttled, cue))
            ELSE ThrottleLoop(Tail(cues), last, current_time, throttled)

\* _apply_throttling that never records the time of the cue it admits
_apply_throttling_forgets(e, cues, current_time) ==
    [cues |-> SelectSeq(cues, LAMBDA cue :
                 current_time - e.last_cue_times[cue.type] >= throttle_rules[cue.type]),
     last_cue_times |-> e.last_cue_times]

_apply_throttling(e, cues, current_time) ==
    ThrottleLoop(cues, e.last_cue_times, current_time, <<>>)

\* _add_cue without the cap on the active list
_add_cue_uncapped(e, cue) ==
    [e EXCEPT !.active_cues = Append(@, cue),
              !.cue_history = LastN(Append(@, cue), cue_history_length)]

\* _add_cue whose history keeps its oldest cues when it is full
_add_cue_keeps_oldest(e, cue) ==
    LET active == Append(e.active_cues, cue)
        history == Append(e.cue_history, cue)
    IN  [e EXCEPT
            !.active_cues =
                IF Len(active) > max_active_cues
                THEN SubSeq(SortByPriority(active), 1, max_active_cues)
                ELSE active,
            !.cue_history = SubSeq(history, 1, Min(Len(history), cue_history_length))]

\* _add_cue that makes room by dropping the oldest active cue
_add_cue_drops_oldest(e, cue) ==
    [e EXCEPT !.active_cues = LastN(Append(@, cue), max_active_cues),
              !.cue_history = LastN(Append(@, cue), cue_history_length)]

\* _add_cue
_add_cue(e, cue) ==
    LET active == Append(e.active_cues, cue)
        history == Append(e.cue_history, cue)
    IN  [e EXCEPT
            !.active_cues =
                IF Len(active) > max_active_cues
                THEN SubSeq(SortByPriority(active), 1, max_active_cues)
                ELSE active,
            !.cue_history = LastN(history, cue_history_length)]

\* _cleanup_expired_cues that lets a cue live through the second it expires
_cleanup_expired_cues_late(e, current_time) ==
    [e EXCEPT !.active_cues =
        SelectSeq(@, LAMBDA cue :
            cue.expires_at = NoTime \/ cue.expires_at = 0
                \/ cue.expires_at >= current_time)]

\* _cleanup_expired_cues: a cue stays if it has no expiry or expires later
_cleanup_expired_cues(e, current_time) ==
    [e EXCEPT !.active_cues =
        SelectSeq(@, LAMBDA cue :
            cue.expires_at = NoTime \/ cue.expires_at = 0
                \/ cue.expires_at > current_time)]

\* for cue in final_cues: await self._add_cue(cue)
RECURSIVE AddAll(_, _)
AddAll(e, cues) ==
    IF cues = <<>> THEN e ELSE AddAll(_add_cue(e, Head(cues)), Tail(cues))

\* a process_analysis_data whose except branch empties the active list
process_analysis_data_clears(e, analysis_data, context, current_time) ==
    LET e1 == _cleanup_expired_cues(e, current_time)
        potential_cues == _generate_cues(e1, analysis_data, context, current_time)
        filtered_cues == _filter_and_prioritize(potential_cues, context)
        t == _apply_throttling(e1, filtered_cues, current_time)
        e2 == [e1 EXCEPT !.last_cue_times = t.last_cue_times]
    IN  IF _generate_cues_raises(analysis_data)
        THEN [engine |-> [e1 EXCEPT !.active_cues = <<>>], returned |-> <<>>,
              after_expiry |-> e1.active_cues, potential_cues |-> <<>>,
              raised |-> TRUE]
        ELSE [engine |-> AddAll(e2, t.cues), returned |-> t.cues,
              after_expiry |-> e1.active_cues, potential_cues |-> potential_cues,
              raised |-> FALSE]

\* process_analysis_data: the new engine and the returned list, with the
\* active list as the expiry step left it and the candidates generated;
\* the except branch keeps what the expiry step did and returns []
process_analysis_data(e, analysis_data, context, current_time) ==
    LET e1 == _cleanup_expired_cues(e, current_time)
        potential_cues == _generate_cues(e1, analysis_data, context, current_time)
        filtered_cues == _filter_and_prioritize(potential_cues, context)
        t == _apply_throttling(e1, filtered_cues, current_time)
        e2 == [e1 EXCEPT !.last_cue_times = t.last_cue_times]
    IN  IF _generate_cues_raises(analysis_data)
        THEN [engine |-> e1, returned |-> <<>>,
              after_expiry |-> e1.active_cues, potential_cues |-> <<>>,
              raised |-> TRUE]
        ELSE [engine |-> AddAll(e2, t.cues), returned |-> t.cues,
              after_expiry |-> e1.active_cues, potential_cues |-> potential_cues,
              raised |-> FALSE]

\* a dismiss_cue that also forgets when the cue's category last fired
dismiss_cue_rearms(e, cue_id) ==
    LET hits == {i \in DOMAIN e.active_cues : e.active_cues[i].id = cue_id}
    IN  IF hits = {} THEN [engine |-> e, found |-> FALSE]
        ELSE
            LET i == CHOOSE j \in hits : \A k \in hits : j <= k
            IN  [engine |-> [e EXCEPT !.active_cues =
                                SubSeq(@, 1, i - 1) \o SubSeq(@, i + 1, Len(@)),
                             !.last_cue_times[e.active_cues[i].type] = 0],
                 found |-> TRUE]

\* dismiss_cue: the first active cue with the id is removed
dismiss_cue(e, cue_id) ==
    LET hits == {i \in DOMAIN e.active_cues : e.active_cues[i].id = cue_id}
    IN  IF hits = {} THEN [engine |-> e, found |-> FALSE]
        ELSE
            LET i == CHOOSE j \in hits : \A k \in hits : j <= k
            IN  [engine |-> [e EXCEPT !.active_cues =
                                SubSeq(@, 1, i - 1) \o SubSeq(@, i + 1, Len(@))],
                 found |-> TRUE]

\* clear_all_cues
clear_all_cues(e) == [e EXCEPT !.active_cues = <<>>]

(***************************************************************************)
(* CueEngine inputs                                                        *)
(***************************************************************************)
GoLower == "Go lower for better range of motion"
SquatDeeper == "Squat deeper for full range of motion"

Angles4(le, re, lk, rk) ==
    [left_elbow |-> le, right_elbow |-> re, left_knee |-> lk, right_knee |-> rk]

\* analysis_data: what process_analysis_data reads of a FrameResult
Analysis(exercise_type, analysis_phase, angles, rep_duration, form_feedback) ==
    [exercise_type |-> exercise_type, current_phase |-> analysis_phase,
     angles |-> angles, rep_duration |-> rep_duration,
     form_feedback |-> form_feedback]

\* SessionContext; target_reps 0 is None, feedback_level "none" and
\* form_overall 0 are absent keys, fatigue_level is in tenths
Context(exercise, phase, reps, target_reps, form_scores, form_overall, feedback_level, session_duration, fatigue_level) ==
    [session_id |-> "s1", current_exercise |-> exercise,
     exercise_phase |-> phase, rep_count |-> reps, target_reps |-> target_reps,
     form_scores |-> form_scores, form_overall |-> form_overall,
     feedback_level |-> feedback_level, session_duration |-> session_duration,
     fatigue_level |-> fatigue_level]

\* the (analysis_data, context) pairs offered to process_analysis_data
CueScenarios ==
    {\* locked elbows, shallow, fast, halfway, long session: every category
     <<Analysis("push-ups", "eccentric", Angles4(180, 180, 180, 180), 1, <<GoLower>>),
       Context("push-ups", "eccentric", 5, 10, <<85, 80>>, 85, "normal", 300, 3)>>,
     \* uneven knees, slow, tired, good form, last reps
     <<Analysis("squats", "bottom", Angles4(Missing, Missing, 100, 120), 7, <<>>),
       Context("squats", "bottom", 9, 10, <<95, 90>>, 95, "none", 30, 9)>>,
     \* shallow squat reported three times over
     <<Analysis("squats", "bottom", Angles4(180, 180, 130, 130), 0,
                <<GoLower, SquatDeeper, GoLower>>),
       Context("push-ups", "bottom", 8, 10, <<88>>, 0, "none", 120, 5)>>,
     \* the classifier's own exercise name, minimal feedback
     <<Analysis("squat", "concentric", Angles4(180, 180, 100, 120), 2, <<SquatDeeper>>),
       Context("none", "rest", 0, 0, <<>>, 0, "minimal", 0, 0)>>,
     \* feedback alone
     <<Analysis("push-ups", "eccentric", Angles4(110, 115, 180, 180), 3, <<GoLower>>),
       Context("none", "rest", 0, 0, <<>>, 0, "minimal", 0, 0)>>}

\* a cue built by hand, as the tests do: form, no expiry, a chosen priority
TestCue(i, timestamp) ==
    [id |-> <<"cue", i, "test">>, type |-> "form", priority |-> i,
     body_part |-> NoBodyPart, msg20 |-> "Cue", timestamp |-> timestamp,
     expires_at |-> NoTime]

TestPriorities == {1, 9}

(***************************************************************************)
(* CueEngine actions                                                       *)
(***************************************************************************)
SetEngine(e) ==
    /\ active_cues' = e.active_cues
    /\ cue_history' = e.cue_history
    /\ last_cue_times' = e.last_cue_times

\* the last two times a cue of each category was returned by process
RECURSIVE RecordEmitted(_, _, _)
RecordEmitted(em, cues, current_time) ==
    IF cues = <<>> THEN em
    ELSE RecordEmitted(
            [em EXCEPT ![Head(cues).type] = <<@[2], current_time>>],
            Tail(cues), current_time)

\* one tick of the coach: process_analysis_data
Process(analysis_data, context) ==
    /\ cue_ops < MaxCueOps
    /\ cue_ops' = cue_ops + 1
    /\ \E r \in {process_analysis_data(Engine, analysis_data, context, wall)} :
           /\ SetEngine(r.engine)
           /\ returned' = r.returned
           /\ emitted' = RecordEmitted(emitted, r.returned, wall)
           /\ emission_log' = emission_log \o r.returned
           /\ cue_trace' = [kind |-> "process", before |-> active_cues,
                            after_expiry |-> r.after_expiry,
                            potential_cues |-> r.potential_cues,
                            raised |-> r.raised]
    /\ cue_op' = "process"
    /\ UNCHANGED <<wall, classifier_vars, pure_vars, loop_vars>>

\* the next cue built by hand: the tests give each cue an id of its own
NewCue(i) ==
    [TestCue(i, wall) EXCEPT !.id = <<"cue", Len(emission_log) + 1, "test">>]

\* _add_cue called directly
AddCue(i) ==
    /\ cue_ops < MaxCueOps
    /\ cue_ops' = cue_ops + 1
    /\ SetEngine(_add_cue(Engine, NewCue(i)))
    /\ emission_log' = Append(emission_log, NewCue(i))
    /\ cue_op' = "add"
    /\ UNCHANGED <<wall, returned, emitted, cue_trace, classifier_vars, pure_vars, loop_vars>>

\* dismiss_cue
Dismiss(cue_id) ==
    /\ \E r \in {dismiss_cue(Engine, cue_id)} :
           /\ SetEngine(r.engine)
           /\ cue_trace' = [kind |-> "dismiss", cue_id |-> cue_id,
                            found |-> r.found]
    /\ cue_op' = "dismiss"
    /\ cue_ops < MaxCueOps
    /\ cue_ops' = cue_ops + 1
    /\ UNCHANGED <<wall, returned, emitted, emission_log, classifier_vars, pure_vars, loop_vars>>

\* clear_all_cues
Clear ==
    /\ SetEngine(clear_all_cues(Engine))
    /\ cue_op' = "clear"
    /\ cue_ops < MaxCueOps
    /\ cue_ops' = cue_ops + 1
    /\ UNCHANGED <<wall, returned, emitted, emission_log, cue_trace, classifier_vars, pure_vars, loop_vars>>

\* time.time() advances
WallTick ==
    /\ wall < WallStart + MaxWall
    /\ wall' = wall + 1
    /\ cue_op' = "tick"
    /\ UNCHANGED <<active_cues, cue_history, last_cue_times, returned,
                   emitted, cue_ops, emission_log, cue_trace, classifier_vars,
                   pure_vars, loop_vars>>

(***************************************************************************)
(* Specifications                                                          *)
(***************************************************************************)
\* no tick has been recorded
NoTick == [kind |-> "none"]

\* both subscription tasks wait for a message
LoopInit ==
    [running |-> "none",          \* the task that holds the event loop
     pose_pc |-> "idle",          \* where handle_pose_result stands
     ctl_pc |-> "idle",           \* where handle_exercise_control stands
     session |-> "none",          \* session_id of the message handled last
     frame |-> NoTick,            \* the frame of the running process_pose
     timestamp |-> 0,             \* its timestamp
     previous_phase |-> "rest",   \* process_pose's local previous_phase
     tick_start |-> NoTick,       \* the classifier when process_pose was entered
     tick_end |-> NoTick]         \* the classifier when process_pose returned

\* the worker after startup_event: a fresh classifier, nothing ingested
ClassifierStart ==
    /\ current_exercise = ClassifierInit.current_exercise
    /\ current_phase = ClassifierInit.current_phase
    /\ rep_count = ClassifierInit.rep_count
    /\ rep_history = ClassifierInit.rep_history
    /\ pose_history = ClassifierInit.pose_history
    /\ phase_start_time = ClassifierInit.phase_start_time
    /\ rep_start_time = ClassifierInit.rep_start_time
    /\ now = 0
    /\ frame_seq = 0
    /\ last_op = "init"
    /\ result = NoResult
    /\ phase_trace = <<>>
    /\ script = NoScript
    /\ starting_at = NoTime

\* the bookkeeping of a cue engine that has not been called yet
CueStart ==
    /\ wall = WallStart
    /\ cue_op = "init"
    /\ returned = <<>>
    /\ emitted = [t \in CueTypes |-> <<NoTime, NoTime>>]
    /\ cue_ops = 0
    /\ cue_trace = [kind |-> "none"]

Init ==
    /\ ClassifierStart
    /\ active_cues = EngineInit.active_cues
    /\ cue_history = EngineInit.cue_history
    /\ last_cue_times = EngineInit.last_cue_times
    /\ emission_log = <<>>
    /\ CueStart
    /\ call = NoCall
    /\ loop = LoopInit

\* the exercise classifier worker
Next ==
    \/ \E f \in FrameInputs, gap \in FrameGaps : Ingest(f, gap)
    \/ Reset
    \/ \E e \in FixtureExercises : SetExercise(e)

Spec == Init /\ [][Next]_vars

\* the cue engine
NextCue ==
    \/ \E s \in CueScenarios : Process(s[1], s[2])
    \/ \E i \in TestPriorities : AddCue(i)
    \/ \E i \in DOMAIN active_cues : Dismiss(active_cues[i].id)
    \/ Dismiss(<<"absent", 0, "s1">>)
    \/ Clear
    \/ WallTick

SpecCue == Init /\ [][NextCue]_vars

(***************************************************************************)
(* The coach over a longer stretch: the clock advances by half the expiry  *)
(* window between its calls                                                *)
(***************************************************************************)
\* how many times the clock advances
MaxJumps == 3

WallJump ==
    /\ wall < WallStart + MaxJumps * (cue_expiry_time \div 2)
    /\ wall' = wall + cue_expiry_time \div 2
    /\ cue_op' = "tick"
    /\ UNCHANGED <<active_cues, cue_history, last_cue_times, returned,
                   emitted, cue_ops, emission_log, cue_trace, classifier_vars,
                   pure_vars, loop_vars>>

NextCueSlow ==
    \/ \E s \in CueScenarios : Process(s[1], s[2])
    \/ \E i \in TestPriorities : AddCue(i)
    \/ WallJump

SpecCueSlow == Init /\ [][NextCueSlow]_vars

(***************************************************************************)
(* The coach through a whole set: ticks keep arriving while the clock      *)
(* runs, every tick in a working phase of a long session of an exercise    *)
(* that gets both instruction reminders                                    *)
(***************************************************************************)
\* how long the clock runs, in steps of half the expiry window
MaxClock == 12

\* ticks on which _generate_instructions builds the breathing reminder and
\* the core-engagement reminder, and nothing else is generated
SteadyScenarios ==
    {<<Analysis("squats", "eccentric", Angles4(180, 180, 100, 100), 0, <<>>),
       Context("squats", "eccentric", 5, 0, <<>>, 0, "none", 300, 0)>>,
     <<Analysis("push-ups", "concentric", Angles4(100, 100, 180, 180), 0, <<>>),
       Context("push-ups", "concentric", 5, 0, <<>>, 0, "normal", 300, 0)>>}

\* the seconds from one tick to the next: half the expiry window, or all
TickGaps == {cue_expiry_time \div 2, cue_expiry_time}

\* one tick of the coach, gap seconds after the one before:
\* process_analysis_data reads time.time() itself
CoachTick(analysis_data, context, gap) ==
    /\ wall + gap <= WallStart + MaxClock * (cue_expiry_time \div 2)
    /\ wall' = wall + gap
    /\ \E r \in {process_analysis_data(Engine, analysis_data, context, wall + gap)} :
           /\ SetEngine(r.engine)
           /\ returned' = r.returned
           /\ emitted' = RecordEmitted(emitted, r.returned, wall + gap)
           /\ emission_log' = emission_log \o r.returned
           /\ cue_trace' = [kind |-> "process", before |-> active_cues,
                            after_expiry |-> r.after_expiry,
                            potential_cues |-> r.potential_cues,
                            raised |-> r.raised]
    /\ cue_op' = "process"
    /\ UNCHANGED <<cue_ops, classifier_vars, pure_vars, loop_vars>>

NextSteady == \E s \in SteadyScenarios, gap \in TickGaps : CoachTick(s[1], s[2], gap)

\* the clock step every tick of NextSteady takes
ClockRuns == \E gap \in TickGaps : /\ wall + gap <= WallStart + MaxClock * (cue_expiry_time \div 2)
                                  /\ wall' = wall + gap

\* ticks keep arriving for as long as the clock runs
SpecSteady == Init /\ [][NextSteady]_vars /\ WF_wall(ClockRuns)

\* analysis data on which _generate_cues raises: a None knee of a squat,
\* a None elbow of a push-up behind a locked one
FaultScenarios ==
    {<<Analysis("squats", "bottom", Angles4(180, 180, Null, 120), 1, <<>>),
       Context("squats", "bottom", 5, 10, <<85, 80>>, 85, "normal", 300, 3)>>,
     <<Analysis("push-ups", "eccentric", Angles4(180, Null, 180, 180), 1, <<GoLower>>),
       Context("push-ups", "eccentric", 5, 10, <<85, 80>>, 85, "normal", 300, 3)>>}

\* the coach fed analysis data that may be malformed
NextCueFault ==
    \/ \E s \in CueScenarios \cup FaultScenarios : Process(s[1], s[2])
    \/ \E i \in TestPriorities : AddCue(i)
    \/ WallJump

SpecCueFault == Init /\ [][NextCueFault]_vars

\* a cue engine late in a session: cues 1 .. history_length - 2 were added
\* one after the other and the active list was cleared
HistoryPreload == [k \in 1..(cue_history_length - 2) |-> TestCue(k, 0)]

LateEngine == clear_all_cues(AddAll(EngineInit, HistoryPreload))

InitLate ==
    /\ ClassifierStart
    /\ active_cues = LateEngine.active_cues
    /\ cue_history = LateEngine.cue_history
    /\ last_cue_times = LateEngine.last_cue_times
    /\ emission_log = HistoryPreload
    /\ CueStart
    /\ call = NoCall
    /\ loop = LoopInit

SpecCueLate == InitLate /\ [][NextCue]_vars

(***************************************************************************)
(* The worker as deployed: messages of two sessions arrive on pose.result  *)
(* and exercise.control.  A task keeps the event loop until it awaits      *)
(* something that suspends; awaiting one of the classifier's own           *)
(* coroutines does not, awaiting nats_client.publish does.                 *)
(***************************************************************************)
Sessions == {"A", "B"}

\* the frames of one push-up: start, down, bottom and up, top
LoopFrames ==
    {Frame(<<140, 140>>, <<180, 180>>, <<FALSE, FALSE, FALSE>>),
     Frame(<<110, 110>>, <<180, 180>>, <<FALSE, FALSE, FALSE>>),
     Frame(<<80, 80>>, <<180, 180>>, <<FALSE, FALSE, FALSE>>),
     Frame(<<170, 170>>, <<180, 180>>, <<FALSE, FALSE, FALSE>>)}

\* the frames a run of the worker handles
MaxLoopFrames == 7

\* the classifier handle_pose_result and handle_exercise_control use for a
\* message of a session: the module's one global instance
ClassifierOf(session) == Classifier

\* every await of the handlers gives the event loop away
SuspendsAlways(site) == TRUE

\* whether the await at a site suspends the task
Suspends(site) == site = "publish"

\* the event loop after the pose task reached an await
AfterAwait(task, site) == IF Suspends(site) THEN "none" ELSE task

\* a task may run when the loop is free or it already holds it
MayRun(task) == loop.running \in {"none", task}

\* handle_pose_result up to process_pose's first await: the frame is
\* appended to the history
PoseBegin(session, f, gap) ==
    /\ MayRun("pose")
    /\ loop.pose_pc = "idle"
    /\ frame_seq < MaxLoopFrames
    /\ now + gap <= MaxTime
    /\ SetClassifier(AppendPose(ClassifierOf(session), f, frame_seq + 1), now + gap)
    /\ now' = now + gap
    /\ frame_seq' = frame_seq + 1
    /\ loop' = [loop EXCEPT !.running = AfterAwait("pose", "_classify_exercise"),
                            !.pose_pc = "classify", !.session = session,
                            !.frame = f, !.timestamp = now + gap,
                            !.tick_start = ClassifierOf(session),
                            !.tick_end = NoTick]
    /\ last_op' = "append"
    /\ script' = NoScript
    /\ UNCHANGED <<result, phase_trace, cue_vars, pure_vars>>

\* process_pose from _classify_exercise to the await of _update_rep_fsm
PoseClassify ==
    /\ MayRun("pose")
    /\ loop.pose_pc = "classify"
    /\ SetClassifier(ClassifyIfUnset(ClassifierOf(loop.session), loop.frame),
                     loop.timestamp)
    /\ loop' = [loop EXCEPT !.running = AfterAwait("pose", "_update_rep_fsm"),
                            !.pose_pc = "fsm",
                            !.previous_phase = ClassifierOf(loop.session).current_phase]
    /\ last_op' = "classify"
    /\ UNCHANGED <<now, frame_seq, result, phase_trace, script, cue_vars, pure_vars>>

\* process_pose from _update_rep_fsm to the await of _complete_rep
PoseFsm ==
    /\ MayRun("pose")
    /\ loop.pose_pc = "fsm"
    /\ SetClassifier(_update_rep_fsm(ClassifierOf(loop.session), loop.frame,
                                     loop.timestamp),
                     loop.timestamp)
    /\ loop' = [loop EXCEPT !.running = AfterAwait("pose", "_complete_rep"),
                            !.pose_pc = "complete"]
    /\ last_op' = "fsm"
    /\ UNCHANGED <<now, frame_seq, result, phase_trace, script, cue_vars, pure_vars>>

\* process_pose from _complete_rep to its return, and handle_pose_result
\* up to its first publish
PoseComplete ==
    /\ MayRun("pose")
    /\ loop.pose_pc = "complete"
    /\ \E rep_completed \in {loop.previous_phase # "completed" /\ current_phase = "completed"} :
        \E c \in {IF rep_completed
                   THEN _complete_rep(ClassifierOf(loop.session), loop.timestamp)
                   ELSE ClassifierOf(loop.session)} :
           /\ SetClassifier(c, loop.timestamp)
           /\ result' = FrameResult(c, loop.frame, rep_completed, FALSE,
                                    loop.timestamp)
           /\ loop' = [loop EXCEPT !.running = AfterAwait("pose", "publish"),
                                   !.pose_pc = "publish", !.tick_end = c]
    /\ last_op' = "process_pose"
    /\ UNCHANGED <<now, frame_seq, phase_trace, script, cue_vars, pure_vars>>

\* the publishes of handle_pose_result are done, the handler returns
PosePublished ==
    /\ MayRun("pose")
    /\ loop.pose_pc = "publish"
    /\ loop' = [loop EXCEPT !.running = "none", !.pose_pc = "idle"]
    /\ last_op' = "published"
    /\ UNCHANGED <<current_exercise, current_phase, rep_count, rep_history,
                   pose_history, phase_start_time, rep_start_time, now, frame_seq,
                   result, phase_trace, script, starting_at, cue_vars, pure_vars>>

\* handle_exercise_control up to its publish: "reset" resets the classifier,
\* "set_exercise" only logs
Control(session, command) ==
    /\ MayRun("control")
    /\ loop.ctl_pc = "idle"
    /\ SetClassifier(IF command = "reset" THEN reset(ClassifierOf(session))
                     ELSE ClassifierOf(session), loop.timestamp)
    /\ loop' = [loop EXCEPT !.running = AfterAwait("control", "publish"),
                            !.ctl_pc = "publish", !.session = session]
    /\ last_op' = command
    /\ script' = NoScript
    /\ UNCHANGED <<now, frame_seq, result, phase_trace, cue_vars, pure_vars>>

\* the control_response is published, the handler returns
ControlPublished ==
    /\ MayRun("control")
    /\ loop.ctl_pc = "publish"
    /\ loop' = [loop EXCEPT !.running = "none", !.ctl_pc = "idle"]
    /\ last_op' = "published"
    /\ UNCHANGED <<current_exercise, current_phase, rep_count, rep_history,
                   pose_history, phase_start_time, rep_start_time, now, frame_seq,
                   result, phase_trace, script, starting_at, cue_vars, pure_vars>>

\* the session is a push-up session, as the tests arrange it
LoopSetExercise ==
    /\ loop.running = "none"
    /\ loop.pose_pc = "idle"
    /\ SetExercise("push-up")

NextWorker ==
    \/ \E session \in Sessions, f \in LoopFrames, gap \in FrameGaps :
           PoseBegin(session, f, gap)
    \/ PoseClassify
    \/ PoseFsm
    \/ PoseComplete
    \/ PosePublished
    \/ \E session \in Sessions, command \in {"reset", "set_exercise"} :
           Control(session, command)
    \/ ControlPublished
    \/ LoopSetExercise

SpecWorker == Init /\ [][NextWorker]_vars

(***************************************************************************)
(* One step of the rep FSM: _update_rep_fsm on a classifier in a given     *)
(* phase of a given exercise and a frame whose joints are at given angles  *)
(***************************************************************************)
\* np.degrees(np.arccos(.)) lies in 0..180
MaxAngle == 180

FsmExercises == {"push-up", "squat", "lunge"}

\* the two sides of the primary joint: equal, or one degree apart (the
\* average is then halfway between two integers)
PrimaryPairs ==
    {<<a, a>> : a \in 0..MaxAngle} \cup {<<a, a + 1>> : a \in 0..(MaxAngle - 1)}

\* the joints the exercise's FSM does not read
OtherAngles == {0, 180}

InitFsm ==
    /\ ClassifierStart
    /\ active_cues = EngineInit.active_cues
    /\ cue_history = EngineInit.cue_history
    /\ last_cue_times = EngineInit.last_cue_times
    /\ emission_log = <<>>
    /\ CueStart
    /\ loop = LoopInit
    /\ call \in {[fn |-> "_update_rep_fsm", exercise |-> e, phase |-> ph,
                   primary |-> pr, other |-> o, done |-> FALSE] :
                      e \in FsmExercises, ph \in RepPhase, pr \in PrimaryPairs,
                      o \in OtherAngles}

\* the frame of the call: elbows are the primary joint of the push-up,
\* knees of the squat and the lunge
FsmFrame ==
    IF call.exercise = "push-up"
    THEN Frame(call.primary, <<call.other, call.other>>, <<FALSE, FALSE, FALSE>>)
    ELSE Frame(<<call.other, call.other>>, call.primary, <<FALSE, FALSE, FALSE>>)

\* _update_rep_fsm runs on the frame, at timestamp 1
FsmStep ==
    /\ call.fn = "_update_rep_fsm"
    /\ ~call.done
    /\ \E c \in {_update_rep_fsm([ClassifierInit EXCEPT
                                       !.current_exercise = call.exercise,
                                       !.current_phase = call.phase],
                                  FsmFrame, 1)} :
           call' = [fn |-> call.fn, exercise |-> call.exercise,
                    phase |-> call.phase, primary |-> call.primary,
                    other |-> call.other, done |-> TRUE,
                    next |-> c.current_phase,
                    phase_start_time |-> c.phase_start_time,
                    rep_start_time |-> c.rep_start_time]
    /\ UNCHANGED <<classifier_vars, cue_vars, loop_vars>>

NextFsm == FsmStep

SpecFsm == InitFsm /\ [][NextFsm]_vars

(***************************************************************************)
(* A push-up session whose messages may carry "timestamp": null, which     *)
(* convert_pose_data passes on as PoseData.timestamp = None                *)
(***************************************************************************)
\* process_pose on a frame without a timestamp
IngestNull(f) ==
    /\ frame_seq < MaxFrames
    /\ \E r \in {process_pose(Classifier, f, frame_seq + 1, NoTime)} :
           /\ SetClassifier(r.state, NoTime)
           /\ result' = r.result
           /\ phase_trace' = r.trace
    /\ script' = NoScript
    /\ frame_seq' = frame_seq + 1
    /\ last_op' = "process_pose"
    /\ UNCHANGED <<now, cue_vars, pure_vars, loop_vars>>

NextFault ==
    \/ \E f \in LoopFrames, gap \in FrameGaps : Ingest(f, gap)
    \/ \E f \in LoopFrames : IngestNull(f)
    \/ Reset
    \/ SetExercise("push-up")

SpecFault == Init /\ [][NextFault]_vars

(***************************************************************************)
(* A long session: one frame after the other, each the frame that moves    *)
(* the rep cycle of the session's exercise on from the phase it is in      *)
(***************************************************************************)
\* enough frames for history_length + 1 reps of six frames
MaxLongFrames == 610

LongExercises == {"push-up", "squat"}

\* the joint angle that takes the push-up FSM (elbows) or the squat FSM
\* (knees) out of a phase
CycleAngle(exercise, phase) ==
    IF exercise = "push-up"
    THEN CASE phase = "rest" -> 140 [] phase = "starting" -> 110
           [] phase = "eccentric" -> 80 [] phase = "bottom" -> 110
           [] phase = "concentric" -> 170 [] OTHER -> 170
    ELSE CASE phase = "rest" -> 150 [] phase = "starting" -> 110
           [] phase = "eccentric" -> 80 [] phase = "bottom" -> 140
           [] phase = "concentric" -> 160 [] OTHER -> 180

\* the next frame of the session
CycleFrame ==
    LET a == CycleAngle(current_exercise, current_phase)
    IN  IF current_exercise = "push-up"
        THEN Frame(<<a, a>>, <<180, 180>>, <<FALSE, FALSE, FALSE>>)
        ELSE Frame(<<180, 180>>, <<a, a>>, <<FALSE, FALSE, FALSE>>)

\* process_pose on the next frame of the session
LongIngest ==
    /\ frame_seq < MaxLongFrames
    /\ \E r \in {process_pose(Classifier, CycleFrame, frame_seq + 1, now)} :
           /\ SetClassifier(r.state, now)
           /\ result' = r.result
           /\ phase_trace' = r.trace
    /\ script' = NoScript
    /\ frame_seq' = frame_seq + 1
    /\ last_op' = "process_pose"
    /\ UNCHANGED <<now, cue_vars, pure_vars, loop_vars>>

NextLong ==
    \/ LongIngest
    \/ \E e \in LongExercises : SetExercise(e)

SpecLong == Init /\ [][NextLong]_vars

(***************************************************************************)
(* The context filter on its own: _filter_and_prioritize applied to a      *)
(* list of candidate cues under a session context                          *)
(***************************************************************************)
\* the catalog's cues, one per template
CatalogCues ==
    {_create_cue_from_template(n, WallStart, [session_id |-> "s1"]) :
        n \in DOMAIN cue_templates}

\* a candidate list the generators can produce: a cue of the catalog and a
\* too_fast tempo cue, in either order
CandidateLists ==
    UNION {{<<cue, _create_cue_from_template("too_fast", WallStart, [session_id |-> "s1"])>>,
            <<_create_cue_from_template("too_fast", WallStart, [session_id |-> "s1"]), cue>>} :
              cue \in CatalogCues}

\* user_preferences.get("feedback_level"); "none" is the absent key
FeedbackLevels == {"none", "normal", "minimal", "detailed"}

\* form_scores.get("overall", 0)
OverallScores == {0, 85, 90, 91, 95}

\* fatigue_level in tenths: 0.0, 0.8, 0.9
FatigueLevels == {0, 8, 9}

FilterContexts ==
    {Context("squats", "eccentric", 5, 10, <<>>, o, fl, 300, fa) :
        o \in OverallScores, fl \in FeedbackLevels, fa \in FatigueLevels}

\* the arguments are on the stack, nothing has run
InitFilter ==
    /\ ClassifierStart
    /\ active_cues = EngineInit.active_cues
    /\ cue_history = EngineInit.cue_history
    /\ last_cue_times = EngineInit.last_cue_times
    /\ emission_log = <<>>
    /\ CueStart
    /\ loop = LoopInit
    /\ call \in {[fn |-> "_filter_and_prioritize", cues |-> cues,
                   context |-> context, done |-> FALSE] :
                      cues \in CandidateLists, context \in FilterContexts}

\* _filter_and_prioritize runs, asking _should_include_cue about each cue
ApplyFilter ==
    /\ call.fn = "_filter_and_prioritize"
    /\ ~call.done
    /\ call' = [fn |-> call.fn, cues |-> call.cues, context |-> call.context,
                done |-> TRUE,
                include |-> [i \in DOMAIN call.cues |->
                                _should_include_cue(call.cues[i], call.context)],
                out |-> _filter_and_prioritize(call.cues, call.context)]
    /\ UNCHANGED <<classifier_vars, cue_vars, loop_vars>>

NextFilter == ApplyFilter

SpecFilter == InitFilter /\ [][NextFilter]_vars

(***************************************************************************)
(* The pipeline classifier -> CueEngine: the dict process_pose returns is  *)
(* the analysis_data of process_analysis_data                              *)
(***************************************************************************)
\* what _generate_cues reads of the dict process_pose returned for frame f:
\* exercise_type, current_phase, metrics.angles (the key angles of the
\* frame), metrics.rep_duration and form_feedback
AnalysisOf(r, f) ==
    Analysis(r.exercise_type, r.current_phase, _calculate_key_angles(f),
             r.metrics.rep_duration, r.form_feedback)

\* the SessionContext of the tick, filled from the same dict
ContextOf(r) ==
    Context(r.exercise_type, r.current_phase, r.rep_count, 10, <<>>, 0, "none", 0, 0)

PipelineElbows == {100, 170, 175, 176, 180}
PipelineKnees == {90, 100, 105, 106, 120}

\* frames of a push-up (the elbows move) and of a squat (the knees move)
PipelineFrames ==
    {Frame(<<l, r>>, <<180, 180>>, <<FALSE, FALSE, FALSE>>) :
        l \in PipelineElbows, r \in PipelineElbows}
    \cup {Frame(<<180, 180>>, <<l, r>>, <<FALSE, FALSE, FALSE>>) :
        l \in PipelineKnees, r \in PipelineKnees}

\* the session's exercise: set by a set_exercise command, or left to the
\* classifier
PipelineExercises == {"push-up", "squat", NoExercise}

\* a frame is about to go through a fresh classifier and a fresh engine
InitPipeline ==
    /\ ClassifierStart
    /\ active_cues = EngineInit.active_cues
    /\ cue_history = EngineInit.cue_history
    /\ last_cue_times = EngineInit.last_cue_times
    /\ emission_log = <<>>
    /\ CueStart
    /\ loop = LoopInit
    /\ call \in {[fn |-> "pipeline", exercise |-> e, frame |-> f, done |-> FALSE] :
                      e \in PipelineExercises, f \in PipelineFrames}

\* process_pose, then _generate_cues on what it returned
PipelineTick ==
    /\ call.fn = "pipeline"
    /\ ~call.done
    /\ \E r \in {process_pose([ClassifierInit EXCEPT !.current_exercise = call.exercise],
                                call.frame, 1, 1).result} :
           call' = [fn |-> call.fn, exercise |-> call.exercise, frame |-> call.frame,
                    done |-> TRUE,
                    exercise_type |-> r.exercise_type,
                    angles |-> _calculate_key_angles(call.frame),
                    potential_cues |-> _generate_cues(EngineInit, AnalysisOf(r, call.frame),
                                                      ContextOf(r), WallStart)]
    /\ UNCHANGED <<classifier_vars, cue_vars, loop_vars>>

NextPipeline == PipelineTick

SpecPipeline == InitPipeline /\ [][NextPipeline]_vars

(***************************************************************************)
(* AdaptiveDifficultyEngine.  Rates are in hundredths (0.85 is 85), scores *)
(* are 0..100, durations are in hundredths of a second, confidences in     *)
(* tenths.  An average over n sets is kept as the sum of the n values and  *)
(* compared with n times the threshold.                                    *)
(***************************************************************************)
\* Optional[...] fields that are None, rule keys that are absent
NoValue == -1

\* DifficultyAdjustment.modification that is None
NoVariation == "None"

\* AdaptiveDifficultyEngine.__init__
progression_threshold == 85
regression_threshold == 60
form_threshold == 75
tempo_threshold == 70
min_sessions_before_progression == 2
fatigue_adjustment_factor == 15

\* seconds as hundredths of a second
Sec(n) == n * 100

\* the exercises of the rule tables
RuleExercises == {"push-ups", "squats", "plank", "lunges"}

\* _load_progression_rules, and {} for any other exercise
progression_rules(exercise_name) ==
    CASE exercise_name = "push-ups" ->
            [rep_increment |-> 2, max_reps_per_set |-> 25,
             duration_increment |-> NoValue, max_duration |-> NoValue]
      [] exercise_name = "squats" ->
            [rep_increment |-> 3, max_reps_per_set |-> 30,
             duration_increment |-> NoValue, max_duration |-> NoValue]
      [] exercise_name = "plank" ->
            [rep_increment |-> NoValue, max_reps_per_set |-> NoValue,
             duration_increment |-> Sec(10), max_duration |-> Sec(300)]
      [] exercise_name = "lunges" ->
            [rep_increment |-> 2, max_reps_per_set |-> 20,
             duration_increment |-> NoValue, max_duration |-> NoValue]
      [] OTHER ->
            [rep_increment |-> NoValue, max_reps_per_set |-> NoValue,
             duration_increment |-> NoValue, max_duration |-> NoValue]

\* _load_regression_rules, and {} for any other exercise
regression_rules(exercise_name) ==
    CASE exercise_name = "push-ups" ->
            [rep_decrement |-> 2, min_reps_per_set |-> 3,
             duration_decrement |-> NoValue, min_duration |-> NoValue]
      [] exercise_name = "squats" ->
            [rep_decrement |-> 3, min_reps_per_set |-> 5,
             duration_decrement |-> NoValue, min_duration |-> NoValue]
      [] exercise_name = "plank" ->
            [rep_decrement |-> NoValue, min_reps_per_set |-> NoValue,
             duration_decrement |-> Sec(10), min_duration |-> Sec(15)]
      [] exercise_name = "lunges" ->
            [rep_decrement |-> 2, min_reps_per_set |-> 4,
             duration_decrement |-> NoValue, min_duration |-> NoValue]
      [] OTHER ->
            [rep_decrement |-> NoValue, min_reps_per_set |-> NoValue,
             duration_decrement |-> NoValue, min_duration |-> NoValue]

\* one rung of a ladder; reps or duration is <<low, high>>, the other <<>>
Rung(name, difficulty, reps, duration) ==
    [name |-> name, difficulty |-> difficulty, reps |-> reps, duration |-> duration]

\* _load_exercise_progressions, and [] for any other exercise
exercise_progressions(exercise_name) ==
    CASE exercise_name = "push-ups" ->
            <<Rung("wall", 1, <<5, 15>>, <<>>), Rung("incline", 2, <<5, 12>>, <<>>),
              Rung("knee", 3, <<5, 15>>, <<>>), Rung("standard", 4, <<5, 20>>, <<>>),
              Rung("diamond", 6, <<3, 15>>, <<>>), Rung("archer", 8, <<2, 10>>, <<>>),
              Rung("one-arm", 10, <<1, 5>>, <<>>)>>
      [] exercise_name = "squats" ->
            <<Rung("chair-assisted", 1, <<5, 15>>, <<>>), Rung("partial", 2, <<8, 20>>, <<>>),
              Rung("bodyweight", 3, <<10, 25>>, <<>>), Rung("jump", 5, <<5, 15>>, <<>>),
              Rung("single-leg", 7, <<3, 12>>, <<>>), Rung("pistol", 9, <<1, 8>>, <<>>)>>
      [] exercise_name = "plank" ->
            <<Rung("wall", 1, <<>>, <<Sec(10), Sec(60)>>),
              Rung("incline", 2, <<>>, <<Sec(15), Sec(90)>>),
              Rung("knee", 3, <<>>, <<Sec(20), Sec(120)>>),
              Rung("standard", 4, <<>>, <<Sec(30), Sec(180)>>),
              Rung("side", 6, <<>>, <<Sec(15), Sec(90)>>),
              Rung("single-arm", 8, <<>>, <<Sec(10), Sec(60)>>)>>
      [] OTHER -> <<>>

\* PerformanceMetrics of one set, as far as the engine reads it
PerformanceMetrics(exercise_name, actual_reps, target_reps, form_score, tempo_score, effort_level, duration) ==
    [exercise_name |-> exercise_name, actual_reps |-> actual_reps,
     target_reps |-> target_reps, form_score |-> form_score,
     tempo_score |-> tempo_score,
     completion_rate |-> (actual_reps * 100) \div target_reps,
     effort_level |-> effort_level, duration |-> duration]

\* DifficultyAdjustment; reasoning is the list of the parts of the string
DifficultyAdjustment(exercise_name, adjustment_type, new_reps, new_duration, modification, reasoning, confidence) ==
    [exercise_name |-> exercise_name, adjustment_type |-> adjustment_type,
     new_reps |-> new_reps, new_sets |-> NoValue, new_duration |-> new_duration,
     modification |-> modification, reasoning |-> reasoning,
     confidence |-> confidence]

\* _should_progress on the sums over n sets
_should_progress(n, completion_rate, form_score, tempo_score, effort) ==
    /\ completion_rate >= progression_threshold * n
    /\ form_score >= form_threshold * n
    /\ tempo_score >= tempo_threshold * n
    /\ effort <= 7 * n

\* a _should_regress that takes an effort of 7 for too strenuous
_should_regress_from_seven(n, completion_rate, form_score, tempo_score, effort) ==
    \/ completion_rate < regression_threshold * n
    \/ form_score < form_threshold * n
    \/ tempo_score < tempo_threshold * n
    \/ effort >= 7 * n

\* _should_regress on the sums over n sets
_should_regress(n, completion_rate, form_score, tempo_score, effort) ==
    \/ completion_rate < regression_threshold * n
    \/ form_score < form_threshold * n
    \/ tempo_score < tempo_threshold * n
    \/ effort >= 9 * n

\* _count_sessions_since_last_change
_count_sessions_since_last_change(history_len) == history_len % 3

\* _get_current_variation: the name of the rung the fitness level maps to
_get_current_variation(exercise_name, user_capabilities) ==
    LET progressions == exercise_progressions(exercise_name)
        default_index ==
            CASE user_capabilities.fitness_level = "beginner" -> 0
              [] user_capabilities.fitness_level = "intermediate" -> 2
              [] user_capabilities.fitness_level = "advanced" -> 4
              [] OTHER -> 2
    IN  IF progressions = <<>> THEN "standard"
        ELSE progressions[Min(default_index, Len(progressions) - 1) + 1].name

\* a _find_variation_index that counts the rungs from 1
_find_variation_index_from_one(variation_name, progressions) ==
    LET hits == {i \in DOMAIN progressions : progressions[i].name = variation_name}
    IN  IF hits = {} THEN 0
        ELSE CHOOSE i \in hits : \A j \in hits : i <= j

\* _find_variation_index: 0-based, 0 when the name is not in the ladder
_find_variation_index(variation_name, progressions) ==
    LET hits == {i \in DOMAIN progressions : progressions[i].name = variation_name}
    IN  IF hits = {} THEN 0
        ELSE (CHOOSE i \in hits : \A j \in hits : i <= j) - 1

\* _create_progression
_create_progression(exercise_name, latest_performance, rules, user_capabilities) ==
    LET current_variation == _get_current_variation(exercise_name, user_capabilities)
        progressions == exercise_progressions(exercise_name)
        current_index == _find_variation_index(current_variation, progressions)
        next_index == Min(current_index + 1, Len(progressions) - 1)
    IN  IF next_index > current_index
        THEN LET next_variation == progressions[next_index + 1]
             IN  DifficultyAdjustment(exercise_name, "progression",
                    IF next_variation.reps # <<>> THEN next_variation.reps[1] ELSE NoValue,
                    IF next_variation.duration # <<>> THEN next_variation.duration[1] ELSE NoValue,
                    next_variation.name,
                    <<"Progressing to variation", next_variation.name>>, 9)
        ELSE IF rules.rep_increment # NoValue
        THEN LET new_reps == Min(latest_performance.target_reps + rules.rep_increment,
                                 rules.max_reps_per_set)
             IN  DifficultyAdjustment(exercise_name, "progression", new_reps, NoValue,
                    NoVariation, <<"Increasing reps", latest_performance.target_reps, new_reps>>, 8)
        ELSE IF rules.duration_increment # NoValue
        THEN LET new_duration == Min(latest_performance.duration + rules.duration_increment,
                                     rules.max_duration)
             IN  DifficultyAdjustment(exercise_name, "progression", NoValue, new_duration,
                    NoVariation, <<"Increasing duration", new_duration>>, 8)
        ELSE DifficultyAdjustment(exercise_name, "maintain", NoValue, NoValue, NoVariation,
                    <<"At maximum progression level">>, 9)

\* _create_regression
_create_regression(exercise_name, latest_performance, rules, user_capabilities) ==
    LET current_variation == _get_current_variation(exercise_name, user_capabilities)
        progressions == exercise_progressions(exercise_name)
        current_index == _find_variation_index(current_variation, progressions)
        prev_index == Max(current_index - 1, 0)
    IN  IF prev_index < current_index
        THEN LET prev_variation == progressions[prev_index + 1]
             IN  DifficultyAdjustment(exercise_name, "regression",
                    IF prev_variation.reps # <<>> THEN prev_variation.reps[2] ELSE NoValue,
                    IF prev_variation.duration # <<>> THEN prev_variation.duration[2] ELSE NoValue,
                    prev_variation.name,
                    <<"Regressing to variation", prev_variation.name>>, 9)
        ELSE IF rules.rep_decrement # NoValue
        THEN LET new_reps == Max(latest_performance.target_reps - rules.rep_decrement,
                                 rules.min_reps_per_set)
             IN  DifficultyAdjustment(exercise_name, "regression", new_reps, NoValue,
                    NoVariation, <<"Decreasing reps", latest_performance.target_reps, new_reps>>, 8)
        ELSE IF rules.duration_decrement # NoValue
        THEN LET new_duration == Max(latest_performance.duration - rules.duration_decrement,
                                     rules.min_duration)
             IN  DifficultyAdjustment(exercise_name, "regression", NoValue, new_duration,
                    NoVariation, <<"Decreasing duration", new_duration>>, 8)
        ELSE DifficultyAdjustment(exercise_name, "maintain", NoValue, NoValue, NoVariation,
                    <<"At minimum difficulty level">>, 9)

\* the sum of one field over a list of sets
RECURSIVE SumField(_, _)
SumField(sets, field) ==
    IF sets = <<>> THEN 0 ELSE Head(sets)[field] + SumField(Tail(sets), field)

\* _analyze_exercise_performance for a non-empty list of sets of one exercise
_analyze_exercise_performance(exercise_name, performances, user_capabilities) ==
    LET recent_performance == LastN(performances, 3)
        n == Len(recent_performance)
        avg_completion_rate == SumField(recent_performance, "completion_rate")
        avg_form_score == SumField(recent_performance, "form_score")
        avg_tempo_score == SumField(recent_performance, "tempo_score")
        avg_effort == SumField(recent_performance, "effort_level")
        needs_progression ==
            _should_progress(n, avg_completion_rate, avg_form_score, avg_tempo_score, avg_effort)
        needs_regression ==
            _should_regress(n, avg_completion_rate, avg_form_score, avg_tempo_score, avg_effort)
        \* only the length of the history is read
        historical_performance == user_capabilities.exercise_history[exercise_name]
        sessions_since_change == _count_sessions_since_last_change(historical_performance)
    IN  IF needs_progression /\ sessions_since_change >= min_sessions_before_progression
        THEN _create_progression(exercise_name, performances[Len(performances)],
                                 progression_rules(exercise_name), user_capabilities)
        ELSE IF needs_regression
        THEN _create_regression(exercise_name, performances[Len(performances)],
                                regression_rules(exercise_name), user_capabilities)
        ELSE DifficultyAdjustment(exercise_name, "maintain", NoValue, NoValue, NoVariation,
                                  <<"Performance stable", avg_completion_rate, avg_form_score, n>>, 8)

\* the keys of the dict exercise_performance, in insertion order
RECURSIVE ExerciseOrder(_, _)
ExerciseOrder(performance_data, seen) ==
    IF performance_data = <<>> THEN seen
    ELSE ExerciseOrder(Tail(performance_data),
            IF \E i \in DOMAIN seen : seen[i] = Head(performance_data).exercise_name
            THEN seen ELSE Append(seen, Head(performance_data).exercise_name))

\* analyze_performance: one adjustment per exercise of the batch
analyze_performance(performance_data, user_capabilities) ==
    LET names == ExerciseOrder(performance_data, <<>>)
    IN  [k \in DOMAIN names |->
            _analyze_exercise_performance(names[k],
                SelectSeq(performance_data, LAMBDA perf : perf.exercise_name = names[k]),
                user_capabilities)]

\* apply_fatigue_adjustment that leaves progressions alone
apply_fatigue_adjustment_keeps_progress(adjustments, fatigue_level) ==
    IF fatigue_level <= 30 THEN adjustments
    ELSE [k \in DOMAIN adjustments |->
            LET adj == adjustments[k]
            IN  IF adj.adjustment_type = "maintain" /\ fatigue_level > 70
                THEN [adj EXCEPT !.adjustment_type = "regression",
                                 !.reasoning = <<"Fatigue-adjusted regression", fatigue_level>>]
                ELSE adj]

\* an apply_fatigue_adjustment that also scales the regressions down
apply_fatigue_adjustment_scales_regressions(adjustments, fatigue_level) ==
    IF fatigue_level <= 30 THEN adjustments
    ELSE [k \in DOMAIN adjustments |->
            LET adj == adjustments[k]
            IN  IF adj.adjustment_type = "progression" /\ fatigue_level > 60
                THEN [adj EXCEPT
                        !.adjustment_type = "maintain",
                        !.reasoning = @ \o <<"progression cancelled due to high fatigue",
                                             fatigue_level>>]
                ELSE IF adj.adjustment_type \in {"maintain", "regression"} /\ fatigue_level > 70
                THEN [adj EXCEPT
                        !.adjustment_type = "regression",
                        !.new_reps =
                            IF @ # NoValue /\ @ # 0
                            THEN Max(1, (@ * (100 - fatigue_adjustment_factor)) \div 100)
                            ELSE @,
                        !.new_duration =
                            IF @ # NoValue /\ @ # 0
                            THEN Max(Sec(10), (@ * (100 - fatigue_adjustment_factor)) \div 100)
                            ELSE @,
                        !.reasoning = <<"Fatigue-adjusted regression", fatigue_level>>]
                ELSE adj]

\* apply_fatigue_adjustment; fatigue_level is in hundredths
apply_fatigue_adjustment(adjustments, fatigue_level) ==
    IF fatigue_level <= 30 THEN adjustments
    ELSE [k \in DOMAIN adjustments |->
            LET adj == adjustments[k]
            IN  IF adj.adjustment_type = "progression" /\ fatigue_level > 60
                THEN [adj EXCEPT
                        !.adjustment_type = "maintain",
                        !.reasoning = @ \o <<"progression cancelled due to high fatigue",
                                             fatigue_level>>]
                ELSE IF adj.adjustment_type = "maintain" /\ fatigue_level > 70
                THEN [adj EXCEPT
                        !.adjustment_type = "regression",
                        !.new_reps =
                            IF @ # NoValue /\ @ # 0
                            THEN Max(1, (@ * (100 - fatigue_adjustment_factor)) \div 100)
                            ELSE @,
                        !.new_duration =
                            IF @ # NoValue /\ @ # 0
                            THEN Max(Sec(10), (@ * (100 - fatigue_adjustment_factor)) \div 100)
                            ELSE @,
                        !.reasoning = <<"Fatigue-adjusted regression", fatigue_level>>]
                ELSE adj]

(***************************************************************************)
(* AdaptiveDifficultyEngine inputs                                         *)
(***************************************************************************)
\* the longest batch of sets
MaxBatch == 4

\* the sets a batch is made of
SetInputs ==
    {PerformanceMetrics("push-ups", 9, 10, 85, 90, 5, Sec(30)),   \* every threshold met
     PerformanceMetrics("push-ups", 4, 10, 85, 90, 5, Sec(30)),   \* completion 0.40
     PerformanceMetrics("push-ups", 6, 10, 75, 70, 8, Sec(30)),   \* on the regression thresholds
     PerformanceMetrics("squat", 4, 10, 85, 90, 5, Sec(30)),      \* not an exercise of the tables
     PerformanceMetrics("plank", 9, 10, 85, 69, 5, Sec(20)),      \* tempo 69
     PerformanceMetrics("lunges", 9, 10, 74, 90, 5, Sec(30)),     \* form 74
     PerformanceMetrics("squats", 17, 20, 75, 70, 9, Sec(30))}    \* effort 9

\* the names exercise_history is asked about; get(name, []) gives length 0
BatchExercises == {m.exercise_name : m \in SetInputs}

BatchInputs == UNION {[1..n -> SetInputs] : n \in 1..MaxBatch}

\* UserCapabilities: the fitness level and the length of each exercise's history
UserCapabilities(fitness_level, history_len) ==
    [fitness_level |-> fitness_level,
     exercise_history |-> [e \in BatchExercises |-> history_len]]

CapabilityInputs ==
    {UserCapabilities("beginner", 0), UserCapabilities("intermediate", 2),
     UserCapabilities("intermediate", 3), UserCapabilities("advanced", 5)}

\* fatigue levels in hundredths: the thresholds 0.3, 0.6, 0.7 and beyond
FatigueInputs == {30, 60, 61, 70, 90}

(***************************************************************************)
(* AdaptiveDifficultyEngine: one batch analysed, then adjusted for fatigue *)
(***************************************************************************)
InitDifficulty ==
    /\ ClassifierStart
    /\ active_cues = EngineInit.active_cues
    /\ cue_history = EngineInit.cue_history
    /\ last_cue_times = EngineInit.last_cue_times
    /\ emission_log = <<>>
    /\ CueStart
    /\ loop = LoopInit
    /\ call \in {[fn |-> "analyze_performance", performance_data |-> b,
                   user_capabilities |-> u, done |-> FALSE] :
                      b \in BatchInputs, u \in CapabilityInputs}

\* analyze_performance returns its adjustments
Analyze ==
    /\ call.fn = "analyze_performance"
    /\ ~call.done
    /\ call' = [fn |-> call.fn, performance_data |-> call.performance_data,
                user_capabilities |-> call.user_capabilities, done |-> TRUE,
                adjustments |-> analyze_performance(call.performance_data,
                                                    call.user_capabilities)]
    /\ UNCHANGED <<classifier_vars, cue_vars, loop_vars>>

\* apply_fatigue_adjustment is given what analyze_performance returned
ApplyFatigue(fatigue_level) ==
    /\ call.fn = "analyze_performance"
    /\ call.done
    /\ call' = [fn |-> "apply_fatigue_adjustment",
                performance_data |-> call.performance_data,
                user_capabilities |-> call.user_capabilities,
                adjustments |-> call.adjustments, fatigue_level |-> fatigue_level,
                done |-> TRUE,
                adjusted |-> apply_fatigue_adjustment(call.adjustments, fatigue_level)]
    /\ UNCHANGED <<classifier_vars, cue_vars, loop_vars>>

NextDifficulty ==
    \/ Analyze
    \/ \E fatigue_level \in FatigueInputs : ApplyFatigue(fatigue_level)

SpecDifficulty == InitDifficulty /\ [][NextDifficulty]_vars

(***************************************************************************)
(* AdaptiveDifficultyEngine: _create_progression and _create_regression    *)
(* on the latest set of an exercise, for every target of the set           *)
(***************************************************************************)
\* the largest target_reps of a set
MaxTarget == 32

\* the exercises of the rule tables and one of no table
AdjustExercises == RuleExercises \cup {"burpees"}

FitnessLevels == {"beginner", "intermediate", "advanced"}

\* the latest set of the exercise: every rep done, in 30 s
LatestSet(exercise_name, target_reps) ==
    PerformanceMetrics(exercise_name, target_reps, target_reps, 85, 90, 5, Sec(30))

InitAdjust ==
    /\ ClassifierStart
    /\ active_cues = EngineInit.active_cues
    /\ cue_history = EngineInit.cue_history
    /\ last_cue_times = EngineInit.last_cue_times
    /\ emission_log = <<>>
    /\ CueStart
    /\ loop = LoopInit
    /\ call \in {[fn |-> fn, exercise_name |-> e, target_reps |-> t,
                   fitness_level |-> l, done |-> FALSE] :
                      fn \in {"_create_progression", "_create_regression"},
                      e \in AdjustExercises, t \in 1..MaxTarget, l \in FitnessLevels}

\* _create_progression returns its adjustment
CreateProgression ==
    /\ call.fn = "_create_progression"
    /\ ~call.done
    /\ call' = [call EXCEPT !.done = TRUE] @@
                [adjustment |-> _create_progression(call.exercise_name,
                                    LatestSet(call.exercise_name, call.target_reps),
                                    progression_rules(call.exercise_name),
                                    UserCapabilities(call.fitness_level, 0))]
    /\ UNCHANGED <<classifier_vars, cue_vars, loop_vars>>

\* _create_regression returns its adjustment
CreateRegression ==
    /\ call.fn = "_create_regression"
    /\ ~call.done
    /\ call' = [call EXCEPT !.done = TRUE] @@
                [adjustment |-> _create_regression(call.exercise_name,
                                    LatestSet(call.exercise_name, call.target_reps),
                                    regression_rules(call.exercise_name),
                                    UserCapabilities(call.fitness_level, 0))]
    /\ UNCHANGED <<classifier_vars, cue_vars, loop_vars>>

NextAdjust ==
    \/ CreateProgression
    \/ CreateRegression

SpecAdjust == InitAdjust /\ [][NextAdjust]_vars

(***************************************************************************)
(* AdaptiveDifficultyEngine: apply_fatigue_adjustment on one adjustment of *)
(* any type.  A maintain that carries reps or a duration is a progression  *)
(* an earlier call cancelled; the reps and durations are those a           *)
(* progression or a regression can carry.                                  *)
(***************************************************************************)
AdjustmentTypes == {"progression", "regression", "maintain"}
RepInputs == {NoValue, 1, 2, 10, 20}
DurationInputs == {NoValue, Sec(10), Sec(11), Sec(12), Sec(60)}

AdjustmentInputs ==
    {DifficultyAdjustment("push-ups", t, r, d, NoVariation, <<"given">>, 8) :
        t \in AdjustmentTypes, r \in RepInputs, d \in DurationInputs}

\* fatigue in hundredths, around 0.3, 0.6 and 0.7
FatigueLevelInputs == {0, 30, 31, 60, 61, 70, 71, 100}

InitFatigue ==
    /\ ClassifierStart
    /\ active_cues = EngineInit.active_cues
    /\ cue_history = EngineInit.cue_history
    /\ last_cue_times = EngineInit.last_cue_times
    /\ emission_log = <<>>
    /\ CueStart
    /\ loop = LoopInit
    /\ call \in {[fn |-> "apply_fatigue_adjustment", adjustments |-> <<a>>,
                   fatigue_level |-> fl, done |-> FALSE] :
                      a \in AdjustmentInputs, fl \in FatigueLevelInputs}

\* apply_fatigue_adjustment returns the list
FatigueCall ==
    /\ call.fn = "apply_fatigue_adjustment"
    /\ ~call.done
    /\ call' = [fn |-> call.fn, adjustments |-> call.adjustments,
                fatigue_level |-> call.fatigue_level, done |-> TRUE,
                adjusted |-> apply_fatigue_adjustment(call.adjustments,
                                                      call.fatigue_level)]
    /\ UNCHANGED <<classifier_vars, cue_vars, loop_vars>>

NextFatigue == FatigueCall

SpecFatigue == InitFatigue /\ [][NextFatigue]_vars

(***************************************************************************)
(* ExerciseClassifier._complete_rep on its own: a rep that started at      *)
(* rep_start_time is completed by a frame of any timestamp, over a pose    *)
(* history with any number of low-confidence frames                        *)
(***************************************************************************)
\* the latest timestamp of a completing frame
MaxStamp == 15

\* a pose history of n frames of which the last k have confidence < 0.8
HistoryOf(n, k) == [i \in 1..n |-> [seq |-> i, low_confidence |-> i > n - k]]

RepStates ==
    {[ClassifierInit EXCEPT !.current_exercise = "push-up",
                            !.current_phase = "completed",
                            !.rep_count = rc, !.rep_start_time = st,
                            !.phase_start_time = st,
                            !.pose_history = HistoryOf(n, k)] :
        rc \in {0, 1}, st \in {0, 5}, n \in {10, 11}, k \in {0, 5, 6, 10}}

InitRep ==
    /\ ClassifierStart
    /\ active_cues = EngineInit.active_cues
    /\ cue_history = EngineInit.cue_history
    /\ last_cue_times = EngineInit.last_cue_times
    /\ emission_log = <<>>
    /\ CueStart
    /\ loop = LoopInit
    /\ call \in {[fn |-> "_complete_rep", c |-> c, timestamp |-> t, done |-> FALSE] :
                      c \in RepStates, t \in 0..MaxStamp}

\* _complete_rep returns
CompleteRep ==
    /\ call.fn = "_complete_rep"
    /\ ~call.done
    /\ call' = [fn |-> call.fn, c |-> call.c, timestamp |-> call.timestamp,
                done |-> TRUE, after |-> _complete_rep(call.c, call.timestamp)]
    /\ UNCHANGED <<classifier_vars, cue_vars, loop_vars>>

NextRep == CompleteRep

SpecRep == InitRep /\ [][NextRep]_vars

(***************************************************************************)
(* AdaptiveDifficultyEngine: _should_progress and _should_regress on the   *)
(* same four averages, given as sums over n sets on and next to every      *)
(* threshold                                                               *)
(***************************************************************************)
SetCounts == {1, 3}
CompletionSums(n) == {0, 60 * n - 1, 60 * n, 85 * n - 1, 85 * n, 100 * n}
FormSums(n) == {0, 75 * n - 1, 75 * n, 100 * n}
TempoSums(n) == {0, 70 * n - 1, 70 * n, 100 * n}
EffortSums(n) == {n, 7 * n, 7 * n + 1, 9 * n - 1, 9 * n, 10 * n}

InitRule ==
    /\ ClassifierStart
    /\ active_cues = EngineInit.active_cues
    /\ cue_history = EngineInit.cue_history
    /\ last_cue_times = EngineInit.last_cue_times
    /\ emission_log = <<>>
    /\ CueStart
    /\ loop = LoopInit
    /\ call \in UNION {{[fn |-> "_should_progress", n |-> n, completion_rate |-> c,
                          form_score |-> f, tempo_score |-> t, effort |-> e,
                          done |-> FALSE] :
                            c \in CompletionSums(n), f \in FormSums(n),
                            t \in TempoSums(n), e \in EffortSums(n)} : n \in SetCounts}

\* needs_progression and needs_regression of _analyze_exercise_performance
RuleCall ==
    /\ call.fn = "_should_progress"
    /\ ~call.done
    /\ call' = [call EXCEPT !.done = TRUE] @@
                [needs_progression |->
                     _should_progress(call.n, call.completion_rate, call.form_score,
                                      call.tempo_score, call.effort),
                 needs_regression |->
                     _should_regress(call.n, call.completion_rate, call.form_score,
                                     call.tempo_score, call.effort)]
    /\ UNCHANGED <<classifier_vars, cue_vars, loop_vars>>

NextRule == RuleCall

SpecRule == InitRule /\ [][NextRule]_vars

(***************************************************************************)
(* Properties of the exercise classifier                                   *)
(***************************************************************************)
\* a step that is one process_pose call
IsIngest == last_op' = "process_pose" /\ frame_seq' = frame_seq + 1

\* C1: over process_pose calls rep_count stays equal or grows by exactly 1,
\* and the only operation that lowers it is reset.
C1_RepCountMonotonic ==
    [][/\ IsIngest => rep_count' \in {rep_count, rep_count + 1}
       /\ rep_count' < rep_count => last_op' = "reset"]_vars

\* a second rep was counted by the last frame
C1_Witness ==
    /\ last_op = "process_pose"
    /\ result.rep_completed
    /\ rep_count = 2

\* C2 as amended: after reset the exercise type is unset (None), the phase
\* is rest, rep_count is 0, both histories are empty and both timestamps
\* are cleared.
C2_ResetState ==
    last_op = "reset" =>
        Classifier = [current_exercise |-> NoExercise, current_phase |-> "rest",
                      rep_count |-> 0, rep_history |-> <<>>,
                      pose_history |-> <<>>, phase_start_time |-> NoTime,
                      rep_start_time |-> NoTime]

\* reset came right after a frame that left a push-up session mid-rep with
\* one rep counted
C2_Witness ==
    /\ last_op = "reset"
    /\ result.kind = "result"
    /\ result.exercise_type = "push-up"
    /\ result.rep_count = 1
    /\ phase_trace = <<"bottom", "rest">>

\* C2 as stated: after reset the exercise type is UNKNOWN (and the rest of
\* the state is cleared).
C2_Original ==
    last_op = "reset" =>
        Classifier = [current_exercise |-> "unknown", current_phase |-> "rest",
                      rep_count |-> 0, rep_history |-> <<>>,
                      pose_history |-> <<>>, phase_start_time |-> NoTime,
                      rep_start_time |-> NoTime]

\* C3: once the seven scripted frames have been fed to a push-up session
\* that was in phase rest with rep_count = n, rep_count is n + 1 and the rep
\* history has exactly one more entry.
C3_ScriptedRep ==
    script.pos = Len(angle_sequence) =>
        /\ rep_count = script.n + 1
        /\ Len(rep_history) = script.h + 1

\* the fixed cycle of phases
CycleEdges ==
    {<<"rest", "starting">>, <<"starting", "eccentric">>,
     <<"eccentric", "bottom">>, <<"bottom", "concentric">>,
     <<"concentric", "top">>, <<"top", "completed">>, <<"completed", "rest">>}

\* the steps of a trace of phases
TraceEdges(trace) == {<<trace[i], trace[i + 1]>> : i \in 1..(Len(trace) - 1)}

\* C4: the phases a process_pose call goes through, from the phase before
\* the call to the phase after it, follow edges of the cycle, at most one of
\* them a threshold edge (any edge but completed -> rest); the phase changes
\* otherwise only by reset, to rest.
C4_PhaseEdges ==
    /\ [](last_op = "process_pose" =>
            /\ TraceEdges(phase_trace) \subseteq CycleEdges
            /\ Cardinality(TraceEdges(phase_trace) \ {<<"completed", "rest">>}) <= 1
            /\ Cardinality(TraceEdges(phase_trace)) = Len(phase_trace) - 1)
    /\ [][/\ IsIngest =>
                /\ phase_trace'[1] = current_phase
                /\ phase_trace'[Len(phase_trace')] = current_phase'
          /\ current_phase' # current_phase =>
                \/ IsIngest
                \/ last_op' = "reset" /\ current_phase' = "rest"]_vars

\* a frame took the phase from top through completed back to rest
C4_Witness ==
    /\ last_op = "process_pose"
    /\ phase_trace = <<"top", "completed", "rest">>

\* C5: a process_pose call that leaves fewer than 10 frames buffered does
\* not set the exercise type of a session that has none.
C5_NoEarlyCommit ==
    [][(IsIngest /\ current_exercise = NoExercise
            /\ Len(pose_history') < MinClassifyFrames)
          => current_exercise' = NoExercise]_vars

\* C6: once the exercise type is set, no process_pose call changes it.
C6_StickyExercise ==
    [][(IsIngest /\ current_exercise # NoExercise)
          => current_exercise' = current_exercise]_vars

\* a session typed unknown by its first frame has ingested frames beyond
\* the tenth
C6_Witness ==
    /\ last_op = "process_pose"
    /\ current_exercise = "unknown"
    /\ Len(pose_history) > MinClassifyFrames

\* the joint that drives the FSM of the exercise is missing from the frame
PrimaryMissing(f, exercise) ==
    CASE exercise = "push-up" -> f.left_elbow = Missing /\ f.right_elbow = Missing
      [] exercise = "squat"   -> f.left_knee = Missing /\ f.right_knee = Missing
      [] exercise = "lunge"   -> f.left_knee = Missing
      [] OTHER -> FALSE

\* C7: a frame whose primary joint is missing never changes the phase,
\* in any phase of a push-up, squat or lunge session.
C7_MissingNeverTransitions ==
    [][\A f \in FrameInputs, gap \in FrameGaps :
          (PrimaryMissing(f, current_exercise) /\ Ingest(f, gap))
              => current_phase' = current_phase]_vars

(***************************************************************************)
(* Properties of the cue engine                                            *)
(***************************************************************************)
\* the elements of a sequence
Range(s) == {s[i] : i \in DOMAIN s}

\* C8: the active list never holds more than max_active_cues cues.
C8_ActiveBounded == Len(active_cues) <= max_active_cues

\* a cue added to a full list was cut off again
C8_Witness ==
    /\ cue_op = "add"
    /\ Len(active_cues) = max_active_cues
    /\ cue_history[Len(cue_history)] \notin Range(active_cues)

\* C9: process_analysis_data returns at most max_active_cues cues.
C9_ReturnedBounded == Len(returned) <= max_active_cues

\* C10: two cues of one category returned by process_analysis_data, in one
\* call or in two, are at least the category's min_interval apart.
C10_CategorySpacing ==
    \A t \in CueTypes :
        emitted[t][1] # NoTime =>
            emitted[t][2] - emitted[t][1] >= throttle_rules[t]

\* two safety cues were returned, exactly min_interval apart
C10_Witness ==
    /\ emitted["safety"][1] # NoTime
    /\ emitted["safety"][2] - emitted["safety"][1] = throttle_rules["safety"]

\* C11: every cue process returns, and every cue given to _add_cue, goes to
\* the end of the cue history; the history never holds more than
\* history_length cues and is always the most recent ones, oldest first.
C11_HistoryRolling ==
    /\ Len(cue_history) <= cue_history_length
    /\ cue_history = LastN(emission_log, cue_history_length)
    /\ cue_op = "process" /\ Len(returned) <= cue_history_length =>
           LastN(cue_history, Len(returned)) = returned

\* process returned cues into a history that was nearly full: the oldest
\* cues are gone and the returned ones are its end
C11_Witness ==
    /\ cue_op = "process"
    /\ Len(returned) >= 3
    /\ Len(emission_log) > cue_history_length
    /\ Len(cue_history) = cue_history_length
    /\ cue_history[1] # emission_log[1]

\* a finished call of the context filter
FilterDone == call.fn = "_filter_and_prioritize" /\ call.done

\* C12: whatever feedback level, form score and fatigue level the context
\* carries, _should_include_cue accepts a safety cue and the filtered list
\* still holds it.
C12_SafetyKept ==
    FilterDone =>
        \A i \in DOMAIN call.cues :
            call.cues[i].type = "safety" =>
                /\ call.include[i]
                /\ call.cues[i] \in Range(call.out)

\* a safety cue was kept under minimal feedback, a form score above 90 and
\* a fatigue above 0.8, while the tempo cue beside it was dropped
C12_Witness ==
    /\ FilterDone
    /\ call.context.feedback_level = "minimal"
    /\ call.context.form_overall > 90
    /\ call.context.fatigue_level > 8
    /\ \E i \in DOMAIN call.cues :
           call.cues[i].type = "safety" /\ call.include[i]
    /\ Len(call.out) = 1

\* C13: for a cue that is not a safety cue, _should_include_cue is FALSE
\* exactly in three cases: motivation under feedback_level "minimal", form
\* with an overall form score above 90, tempo with fatigue above 0.8.
C13_FilterTable ==
    FilterDone =>
        \A i \in DOMAIN call.cues :
            call.cues[i].type # "safety" =>
                (call.include[i] <=>
                    ~ \/ /\ call.cues[i].type = "motivation"
                          /\ call.context.feedback_level = "minimal"
                       \/ /\ call.cues[i].type = "form"
                          /\ call.context.form_overall > 90
                       \/ /\ call.cues[i].type = "tempo"
                          /\ call.context.fatigue_level > 8)

\* a form cue was kept at an overall score of exactly 90 while the tempo
\* cue beside it was kept at a fatigue of exactly 0.8
C13_Witness ==
    /\ FilterDone
    /\ call.context.form_overall = 90
    /\ call.context.fatigue_level = 8
    /\ call.cues[1].type = "form"
    /\ call.include = <<TRUE, TRUE>>

(***************************************************************************)
(* Properties of the adaptive difficulty engine                            *)
(***************************************************************************)
\* analyze_performance has returned
AnalyzeDone ==
    call.fn \in {"analyze_performance", "apply_fatigue_adjustment"} /\ call.done

\* the last three sets, at most, of the k-th exercise of the batch
RecentSets(k) ==
    LastN(SelectSeq(call.performance_data,
                    LAMBDA perf : perf.exercise_name = call.adjustments[k].exercise_name), 3)

\* C14: when every recent set of an exercise has completion_rate 0.9, form
\* 85, tempo 90 and effort 5, the adjustment for it is a progression,
\* however long the user's history of the exercise is.
C14_ProgressionAnyHistory ==
    AnalyzeDone =>
        \A k \in DOMAIN call.adjustments :
            (\A i \in DOMAIN RecentSets(k) :
                /\ RecentSets(k)[i].completion_rate = 90
                /\ RecentSets(k)[i].form_score = 85
                /\ RecentSets(k)[i].tempo_score = 90
                /\ RecentSets(k)[i].effort_level = 5)
            => call.adjustments[k].adjustment_type = "progression"

\* the regression rule on the averages of the recent sets of exercise k
RegressionRule(k) ==
    LET n == Len(RecentSets(k))
    IN  \/ SumField(RecentSets(k), "completion_rate") < 60 * n
        \/ SumField(RecentSets(k), "form_score") < 75 * n
        \/ SumField(RecentSets(k), "tempo_score") < 70 * n
        \/ SumField(RecentSets(k), "effort_level") >= 9 * n

\* the progression rule on the averages of the recent sets of exercise k
ProgressionRule(k) ==
    LET n == Len(RecentSets(k))
    IN  /\ SumField(RecentSets(k), "completion_rate") >= 85 * n
        /\ SumField(RecentSets(k), "form_score") >= 75 * n
        /\ SumField(RecentSets(k), "tempo_score") >= 70 * n
        /\ SumField(RecentSets(k), "effort_level") <= 7 * n

\* C15: for every exercise of the batch the adjustment is a regression
\* exactly when the averages over its last three sets, at most, have
\* completion_rate < 0.60 or form < 75 or tempo < 70 or effort >= 9, and it
\* is "maintain" when neither that rule nor the progression rule holds.
C15_RegressionRule ==
    AnalyzeDone =>
        \A k \in DOMAIN call.adjustments :
            /\ call.adjustments[k].adjustment_type = "regression" <=> RegressionRule(k)
            /\ ~RegressionRule(k) /\ ~ProgressionRule(k) =>
                   call.adjustments[k].adjustment_type = "maintain"

\* apply_fatigue_adjustment has returned
FatigueDone == call.fn = "apply_fatigue_adjustment" /\ call.done

\* C16: with fatigue above 0.6 no adjustment leaves apply_fatigue_adjustment
\* as a progression; each progression that went in comes out as "maintain"
\* or "regression", with a reasoning that differs from the one it had.
C16_FatigueCancelsProgression ==
    FatigueDone /\ call.fatigue_level > 60 =>
        /\ Len(call.adjusted) = Len(call.adjustments)
        /\ \A k \in DOMAIN call.adjusted :
               /\ call.adjusted[k].adjustment_type # "progression"
               /\ call.adjusted[k].exercise_name = call.adjustments[k].exercise_name
               /\ call.adjustments[k].adjustment_type = "progression" =>
                      /\ call.adjusted[k].adjustment_type \in {"maintain", "regression"}
                      /\ call.adjusted[k].reasoning # call.adjustments[k].reasoning

\* a progression to the next rung went in at fatigue 0.61 and came out as
\* "maintain"
C16_Witness ==
    /\ FatigueDone
    /\ call.fatigue_level = 61
    /\ \E k \in DOMAIN call.adjustments :
           /\ call.adjustments[k].adjustment_type = "progression"
           /\ call.adjustments[k].modification # NoVariation
           /\ call.adjusted[k].adjustment_type = "maintain"

(***************************************************************************)
(* Properties of the worker                                                *)
(***************************************************************************)
\* C17: a step of a handler working on a message of one session leaves
\* the classifier state of every other session as it was.
C17_SessionIsolation ==
    [][\A other \in Sessions :
          loop'.session # other => ClassifierOf(other)' = ClassifierOf(other)]_vars

\* C18: process_pose returns the state it computes from the state it was
\* entered with, no other handler having written in between; and right
\* after a reset every field of the classifier has its initial value, with
\* no process_pose under way.
C18_TickAtomic ==
    /\ loop.tick_end # NoTick =>
           loop.tick_end = process_pose(loop.tick_start, loop.frame,
                                        frame_seq, loop.timestamp).state
    /\ last_op = "reset" =>
           /\ Classifier = ClassifierInit
           /\ loop.pose_pc \in {"idle", "publish"}

\* a reset ran while handle_pose_result was suspended in its publish, after
\* a process_pose that had completed a rep
C18_Witness ==
    /\ last_op = "reset"
    /\ loop.pose_pc = "publish"
    /\ loop.tick_end # NoTick
    /\ loop.tick_end.rep_count = 1
    /\ loop.tick_start.current_phase = "top"

(***************************************************************************)
(* Properties of the histories in a long session                           *)
(***************************************************************************)
\* C19: the rep history never grows beyond a fixed capacity, the
\* classifier's history_length, the oldest RepMetrics leaving first.
C19_RepHistoryBounded == Len(rep_history) <= history_length

\* C20: the pose history holds the last history_length frames that
\* arrived, or all of them while they are fewer, in arrival order.
C20_PoseHistoryRolling ==
    /\ Len(pose_history) = Min(frame_seq, history_length)
    /\ \A i \in DOMAIN pose_history :
           pose_history[i].seq = frame_seq - Len(pose_history) + i

\* the history has been full for ten frames: its oldest frame is the one
\* that arrived history_length - 1 frames before the newest
C20_Witness ==
    /\ frame_seq = history_length + 10
    /\ Len(pose_history) = history_length
    /\ pose_history[1].seq = 11
    /\ pose_history[history_length].seq = frame_seq

(***************************************************************************)
(* C21: every process_pose returns a dict with the keys exercise_type,     *)
(* rep_count, current_phase, rep_completed, metrics, form_feedback and     *)
(* timestamp, whatever the frame                                           *)
(***************************************************************************)
FrameResultKeys ==
    {"exercise_type", "rep_count", "current_phase", "rep_completed", "metrics",
     "form_feedback", "timestamp"}

C21_WellFormedResult ==
    last_op = "process_pose" => FrameResultKeys \subseteq DOMAIN result

NoFsmExercises == {"unknown", "plank", "jumping-jack"}

C23_NoFsmNoOp ==
    [][IsIngest /\ current_exercise \in NoFsmExercises =>
         /\ current_phase' = current_phase
         /\ rep_count' = rep_count
         /\ rep_history' = rep_history
         /\ phase_start_time' = phase_start_time
         /\ rep_start_time' = rep_start_time]_vars

(***************************************************************************)
(* C24: for every phase and every integer angle in 0..180 the FSM step is  *)
(* the one of the threshold table: push-up on the average elbow angle with *)
(* edges <150, <120, <90, >100, >150, >160; squat on the average knee      *)
(* angle and lunge on the front knee angle with edges <160, <130, <100,    *)
(* >110, >150, >170; all comparisons strict, and at any other angle the    *)
(* phase is unchanged.                                                     *)
(***************************************************************************)
\* the edge out of each phase: the phase it leads to, the side of the
\* threshold that fires it, the threshold for the push-up and for the knee
TableEdge(phase) ==
    CASE phase = "rest"       -> [to |-> "starting",   side |-> "<", elbow |-> 150, knee |-> 160]
      [] phase = "starting"   -> [to |-> "eccentric",  side |-> "<", elbow |-> 120, knee |-> 130]
      [] phase = "eccentric"  -> [to |-> "bottom",     side |-> "<", elbow |-> 90,  knee |-> 100]
      [] phase = "bottom"     -> [to |-> "concentric", side |-> ">", elbow |-> 100, knee |-> 110]
      [] phase = "concentric" -> [to |-> "top",        side |-> ">", elbow |-> 150, knee |-> 150]
      [] phase = "top"        -> [to |-> "completed",  side |-> ">", elbow |-> 160, knee |-> 170]
      [] OTHER                -> [to |-> phase,        side |-> "none", elbow |-> 0, knee |-> 0]

\* twice the angle the table is read with
TableAngle2 ==
    IF call.exercise = "lunge" THEN 2 * call.primary[1]
    ELSE call.primary[1] + call.primary[2]

TableNext ==
    LET edge == TableEdge(call.phase)
        t == IF call.exercise = "push-up" THEN edge.elbow ELSE edge.knee
    IN  IF \/ edge.side = "<" /\ TableAngle2 < 2 * t
           \/ edge.side = ">" /\ TableAngle2 > 2 * t
        THEN edge.to
        ELSE call.phase

\* a finished call of the FSM step
FsmDone == call.fn = "_update_rep_fsm" /\ call.done

C24_ThresholdTable == FsmDone => call.next = TableNext

\* a squat at rest with both knees at exactly 160 stays at rest, and one
\* with the knees at 159 and 160 starts
C24_Witness ==
    /\ FsmDone
    /\ call.exercise = "squat"
    /\ call.phase = "rest"
    /\ \/ call.primary = <<160, 160>> /\ call.next = "rest"
       \/ call.primary = <<159, 160>> /\ call.next = "starting"

(***************************************************************************)
(* C25: when adding cues overflows the active list, the cues that leave it *)
(* are lowest-priority ones whatever their age: every cue evicted by       *)
(* _add_cue (called directly, or for each cue process returns) has a       *)
(* priority less than or equal to that of every cue that stays active.     *)
(***************************************************************************)
\* how many times x occurs in s
Count(s, x) == Cardinality({i \in DOMAIN s : s[i] = x})

\* the cues of before that are missing from after
Evicted(before, after) ==
    {x \in Range(before) : Count(after, x) < Count(before, x)}

\* the active list with the cues a step hands to _add_cue appended: the one
\* cue of a direct call, or the cues process returns after its expiry step
Candidates ==
    IF cue_op' = "add" THEN Append(active_cues, emission_log'[Len(emission_log')])
    ELSE _cleanup_expired_cues(Engine, wall).active_cues \o returned'

C25_EvictsLowestPriority ==
    [][cue_op' \in {"add", "process"} /\ cue_ops' = cue_ops + 1 =>
         /\ \A x \in Range(active_cues') : Count(active_cues', x) <= Count(Candidates, x)
         /\ Len(active_cues') = Min(Len(Candidates), max_active_cues)
         /\ \A x \in Evicted(Candidates, active_cues') :
                \A y \in Range(active_cues') : x.priority <= y.priority]_vars

\* a cue added last stays active while an older cue of lower priority has
\* been evicted for it
C25_Witness ==
    /\ cue_op = "add"
    /\ Len(active_cues) = max_active_cues
    /\ emission_log[Len(emission_log)] \in Range(active_cues)
    /\ \E i \in 1..(Len(emission_log) - 1) :
           /\ emission_log[i] \notin Range(active_cues)
           /\ emission_log[i].priority < emission_log[Len(emission_log)].priority
           /\ emission_log[i].priority > 1

(***************************************************************************)
(* C26: every cue process_analysis_data returns is in the active list when *)
(* the call returns, with expires_at = its emission time + cue_expiry_time *)
(***************************************************************************)
C26_ReturnedAreActive ==
    cue_op = "process" =>
        \A i \in DOMAIN returned :
            /\ returned[i] \in Range(active_cues)
            /\ returned[i].expires_at = returned[i].timestamp + cue_expiry_time

(***************************************************************************)
(* C27: the expiry step at the start of a process tick removes exactly the *)
(* active cues whose expires_at is at or before the time of the tick: what *)
(* it leaves is the active list without them, in the same order, so no     *)
(* cue left is expired and no cue that expires later, or never, is removed *)
(***************************************************************************)
Expired(cue, current_time) ==
    cue.expires_at # NoTime /\ cue.expires_at <= current_time

C27_ExpiryExact ==
    cue_op = "process" =>
        cue_trace.after_expiry =
            SelectSeq(cue_trace.before, LAMBDA cue : ~Expired(cue, wall))

\* a tick at the very second a cue expires removed it and kept a cue that
\* expires later
C27_Witness ==
    /\ cue_op = "process"
    /\ \E i \in DOMAIN cue_trace.before :
           /\ cue_trace.before[i].expires_at = wall
           /\ cue_trace.before[i] \notin Range(cue_trace.after_expiry)
    /\ \E i \in DOMAIN cue_trace.after_expiry :
           /\ cue_trace.after_expiry[i].expires_at > wall
           /\ cue_trace.after_expiry[i].timestamp < wall

(***************************************************************************)
(* C28: two emissions of the same periodic reminder are at least its       *)
(* reminder interval apart: 30 s for the breathing reminder, 45 s for the  *)
(* core-engagement reminder                                                *)
(***************************************************************************)
\* the times at which cues of a template were emitted
EmissionTimes(template_name) ==
    {emission_log[i].timestamp :
        i \in {j \in DOMAIN emission_log : emission_log[j].id[1] = template_name}}

\* any two different times of the set are at least interval apart
Spaced(times, interval) ==
    \A t1, t2 \in times : t1 < t2 => t2 - t1 >= interval

C28_ReminderSpacing ==
    /\ Spaced(EmissionTimes("breathing_reminder"), 30)
    /\ Spaced(EmissionTimes("core_engagement"), 45)

(***************************************************************************)
(* C29: the list process_analysis_data returns is in order of              *)
(* non-increasing priority, and of two returned cues of equal priority the *)
(* one generated first comes first.                                        *)
(***************************************************************************)
\* the place of a cue among the candidates of the tick: its first
FirstAt(cue, cues) == CHOOSE i \in DOMAIN cues : cues[i] = cue /\ \A j \in 1..(i - 1) : cues[j] # cue

C29_PriorityOrder ==
    cue_op = "process" =>
        \A i, j \in DOMAIN returned :
            i < j =>
                /\ returned[i].priority >= returned[j].priority
                /\ returned[i] \in Range(cue_trace.potential_cues)
                /\ returned[j] \in Range(cue_trace.potential_cues)
                /\ returned[i].priority = returned[j].priority =>
                       FirstAt(returned[i], cue_trace.potential_cues)
                           < FirstAt(returned[j], cue_trace.potential_cues)

\* a tick returned two cues of equal priority, in the order of generation,
\* after a cue of higher priority that was generated later than another
C29_Witness ==
    /\ cue_op = "process"
    /\ \E i, j \in DOMAIN returned :
           /\ i < j
           /\ returned[i].priority = returned[j].priority
           /\ returned[i].type # returned[j].type
    /\ \E i, j \in DOMAIN returned :
           /\ i < j
           /\ returned[i].priority > returned[j].priority
           /\ FirstAt(returned[i], cue_trace.potential_cues)
                  > FirstAt(returned[j], cue_trace.potential_cues)

(***************************************************************************)
(* C30: dismiss_cue touches the active list only.  If a cue with the id is *)
(* active it is removed, no active cue has the id afterwards and the       *)
(* answer is true; otherwise nothing changes and the answer is false.      *)
(* Either way cue_history and last_cue_times stay as they were.            *)
(***************************************************************************)
ActiveIds(cues) == {cues[i].id : i \in DOMAIN cues}

C30_DismissFrame ==
    [][cue_op' = "dismiss" =>
        /\ cue_trace'.kind = "dismiss"
        /\ cue_history' = cue_history
        /\ last_cue_times' = last_cue_times
        /\ IF cue_trace'.cue_id \in ActiveIds(active_cues)
           THEN /\ cue_trace'.found
                /\ cue_trace'.cue_id \notin ActiveIds(active_cues')
                /\ active_cues' = SelectSeq(active_cues,
                                      LAMBDA cue : cue.id # cue_trace'.cue_id)
                /\ Len(active_cues') = Len(active_cues) - 1
           ELSE /\ ~cue_trace'.found
                /\ active_cues' = active_cues]_vars

\* a cue the engine emitted has been dismissed while its category is still
\* inside its throttle interval, and another cue is still active
C30_Witness ==
    /\ cue_op = "dismiss"
    /\ cue_trace.found
    /\ cue_trace.cue_id[1] \in DOMAIN cue_templates
    /\ wall - last_cue_times[cue_templates[cue_trace.cue_id[1]].type]
           < throttle_rules[cue_templates[cue_trace.cue_id[1]].type]
    /\ active_cues # <<>>
    /\ cue_history # <<>>

(***************************************************************************)
(* C31: a tick of process_analysis_data whose candidate generation raises  *)
(* returns the empty list and admits nothing: cue_history and              *)
(* last_cue_times are as before, and active_cues is its value before the   *)
(* tick without the cues that had expired.                                 *)
(***************************************************************************)
C31_GenerationFault ==
    [][(cue_op' = "process" /\ cue_trace'.raised) =>
        /\ returned' = <<>>
        /\ cue_history' = cue_history
        /\ last_cue_times' = last_cue_times
        /\ active_cues' = SelectSeq(active_cues, LAMBDA cue : ~Expired(cue, wall))]_vars

\* a faulting tick dropped an expired cue, kept another, and the engine had
\* emitted before
C31_Witness ==
    /\ cue_op = "process"
    /\ cue_trace.raised
    /\ returned = <<>>
    /\ active_cues # <<>>
    /\ Len(active_cues) < Len(cue_trace.before)
    /\ cue_history # <<>>

(***************************************************************************)
(* C32: fed with what the classifier returns for a push-up or squat        *)
(* session, the engine generates the knee_valgus candidate when the knees  *)
(* differ by more than 15 degrees and the hyperextension candidate when an *)
(* elbow is beyond 175 degrees.                                            *)
(***************************************************************************)
TemplatesOf(cues) == {cues[i].id[1] : i \in DOMAIN cues}

C32_SafetyOnClassifierOutput ==
    (call.fn = "pipeline" /\ call.done) =>
        /\ (call.exercise = "squat"
               /\ Abs(call.angles.left_knee - call.angles.right_knee) > 15)
              => "knee_valgus" \in TemplatesOf(call.potential_cues)
        /\ (call.exercise = "push-up"
               /\ (call.angles.left_elbow > 175 \/ call.angles.right_elbow > 175))
              => "hyperextension" \in TemplatesOf(call.potential_cues)

(***************************************************************************)
(* C33: an adjustment of analyze_performance that names a variation names  *)
(* the rung next to the user's current rung of the exercise's ladder: the  *)
(* one above, of higher difficulty, for a progression, the one below, of   *)
(* lower difficulty, for a regression.  A progression or regression that   *)
(* names no variation is made only at the top (bottom) rung or for an      *)
(* exercise without a ladder.                                              *)
(***************************************************************************)
\* the place (from 1) of the user's current rung in the ladder, 0 without one
CurrentRung(exercise_name, user_capabilities) ==
    LET ladder == exercise_progressions(exercise_name)
        name == _get_current_variation(exercise_name, user_capabilities)
    IN  IF ladder = <<>> THEN 0
        ELSE CHOOSE i \in DOMAIN ladder : ladder[i].name = name

OneRung(adj, user_capabilities) ==
    LET ladder == exercise_progressions(adj.exercise_name)
        cur == CurrentRung(adj.exercise_name, user_capabilities)
    IN  /\ (adj.adjustment_type = "progression" /\ adj.modification # NoVariation) =>
              /\ ladder # <<>>
              /\ cur < Len(ladder)
              /\ adj.modification = ladder[cur + 1].name
              /\ ladder[cur + 1].difficulty > ladder[cur].difficulty
        /\ (adj.adjustment_type = "regression" /\ adj.modification # NoVariation) =>
              /\ ladder # <<>>
              /\ cur > 1
              /\ adj.modification = ladder[cur - 1].name
              /\ ladder[cur - 1].difficulty < ladder[cur].difficulty
        /\ (adj.adjustment_type = "progression" /\ adj.modification = NoVariation) =>
              (ladder = <<>> \/ cur = Len(ladder))
        /\ (adj.adjustment_type = "regression" /\ adj.modification = NoVariation) =>
              (ladder = <<>> \/ cur = 1)
        /\ adj.adjustment_type = "maintain" =>
              (adj.modification = NoVariation /\ adj.new_reps = NoValue)

C33_OneRung ==
    (call.fn \in {"analyze_performance", "apply_fatigue_adjustment"} /\ call.done) =>
        \A k \in DOMAIN call.adjustments :
            OneRung(call.adjustments[k], call.user_capabilities)

\* one batch gave a progression to the rung above, a regression to the rung
\* below, and a regression inside the rung for an exercise without a ladder
C33_Witness ==
    /\ call.fn = "analyze_performance"
    /\ call.done
    /\ \E k \in DOMAIN call.adjustments :
           /\ call.adjustments[k].adjustment_type = "progression"
           /\ call.adjustments[k].exercise_name = "push-ups"
           /\ call.adjustments[k].modification = "standard"
    /\ \E k \in DOMAIN call.adjustments :
           /\ call.adjustments[k].adjustment_type = "regression"
           /\ call.adjustments[k].exercise_name = "plank"
           /\ call.adjustments[k].modification = "incline"
    /\ \E k \in DOMAIN call.adjustments :
           /\ call.adjustments[k].adjustment_type = "regression"
           /\ call.adjustments[k].exercise_name = "lunges"
           /\ call.adjustments[k].modification = NoVariation
           /\ call.adjustments[k].new_reps # NoValue

(***************************************************************************)
(* C34: an adjustment of the reps inside the rung goes the way of its      *)
(* type and keeps the bounds, whatever the current target: a progression   *)
(* gives min(target_reps + rep_increment, max_reps_per_set) and not fewer  *)
(* reps than the target, a regression gives max(target_reps -              *)
(* rep_decrement, min_reps_per_set) and not more reps than the target.     *)
(***************************************************************************)
WithinRung(adj) == adj.modification = NoVariation /\ adj.new_reps # NoValue

C34_WithinRungDirection ==
    (call.fn \in {"_create_progression", "_create_regression"} /\ call.done
         /\ WithinRung(call.adjustment)) =>
        /\ call.adjustment.adjustment_type = "progression" =>
              /\ call.adjustment.new_reps =
                     Min(call.target_reps + progression_rules(call.exercise_name).rep_increment,
                         progression_rules(call.exercise_name).max_reps_per_set)
              /\ call.adjustment.new_reps >= call.target_reps
        /\ call.adjustment.adjustment_type = "regression" =>
              /\ call.adjustment.new_reps =
                     Max(call.target_reps - regression_rules(call.exercise_name).rep_decrement,
                         regression_rules(call.exercise_name).min_reps_per_set)
              /\ call.adjustment.new_reps <= call.target_reps

(***************************************************************************)
(* C35: apply_fatigue_adjustment at fatigue 0.3 or less returns every      *)
(* adjustment as it was; above 0.7 every maintain comes out as a           *)
(* regression whose reps and duration are scaled by 1 -                    *)
(* fatigue_adjustment_factor, not below 1 rep and 10 s; a regression comes *)
(* out as it went in at every fatigue level.                               *)
(***************************************************************************)
Scaled(v, floor) ==
    IF v = NoValue THEN NoValue
    ELSE Max(floor, (v * (100 - fatigue_adjustment_factor)) \div 100)

C35_FatigueTable ==
    (call.fn = "apply_fatigue_adjustment" /\ call.done) =>
        /\ Len(call.adjusted) = Len(call.adjustments)
        /\ \A k \in DOMAIN call.adjustments :
              LET in == call.adjustments[k]
                  out == call.adjusted[k]
              IN  /\ call.fatigue_level <= 30 => out = in
                  /\ in.adjustment_type = "regression" => out = in
                  /\ (in.adjustment_type = "maintain" /\ call.fatigue_level > 70) =>
                        /\ out.adjustment_type = "regression"
                        /\ out.new_reps = Scaled(in.new_reps, 1)
                        /\ out.new_duration = Scaled(in.new_duration, Sec(10))
                        /\ out.exercise_name = in.exercise_name
                        /\ out.modification = in.modification

\* a maintain of 10 reps and 12 s came out, at fatigue above 0.7, as a
\* regression of 8 reps and 10.2 s
C35_Witness ==
    /\ call.fn = "apply_fatigue_adjustment"
    /\ call.done
    /\ call.fatigue_level > 70
    /\ "performance_data" \notin DOMAIN call
    /\ call.adjustments[1].adjustment_type = "maintain"
    /\ call.adjustments[1].new_reps = 10
    /\ call.adjustments[1].new_duration = Sec(12)
    /\ call.adjusted[1].adjustment_type = "regression"
    /\ call.adjusted[1].new_reps = 8
    /\ call.adjusted[1].new_duration = 1020

C37_HistoryMatchesCount ==
    /\ Len(rep_history) = rep_count
    /\ \A i \in DOMAIN rep_history : rep_history[i].rep_number = i

(***************************************************************************)
(* C38: when process_pose or reset has returned, the phase is not          *)
(* completed; rep_start_time is set in the phases starting, eccentric,     *)
(* bottom, concentric and top and unset in the phase rest.                 *)
(***************************************************************************)
ActivePhases == {"starting", "eccentric", "bottom", "concentric", "top"}

C38_NeverRestsCompleted ==
    /\ current_phase # "completed"
    /\ current_phase \in ActivePhases => rep_start_time # NoTime
    /\ current_phase = "rest" => rep_start_time = NoTime

(***************************************************************************)
(* C39: _should_progress and _should_regress are never both true of the    *)
(* same averages, so testing the regression rule before the progression    *)
(* rule would give the same adjustment type, whatever the sessions guard.  *)
(***************************************************************************)
ProgressionFirst(p, r, guard) ==
    IF p /\ guard THEN "progression" ELSE IF r THEN "regression" ELSE "maintain"

RegressionFirst(p, r, guard) ==
    IF r THEN "regression" ELSE IF p /\ guard THEN "progression" ELSE "maintain"

C39_RulesExclusive ==
    (call.fn = "_should_progress" /\ call.done) =>
        /\ ~(call.needs_progression /\ call.needs_regression)
        /\ \A guard \in BOOLEAN :
              ProgressionFirst(call.needs_progression, call.needs_regression, guard)
                  = RegressionFirst(call.needs_progression, call.needs_regression, guard)

\* three sets whose averages sit on the four thresholds of the progression
\* rule: progression, no regression
C39_Witness ==
    /\ call.fn = "_should_progress"
    /\ call.done
    /\ call.n = 3
    /\ call.completion_rate = 85 * 3
    /\ call.form_score = 75 * 3
    /\ call.tempo_score = 70 * 3
    /\ call.effort = 7 * 3
    /\ call.needs_progression
    /\ ~call.needs_regression

(***************************************************************************)
(* C40: throttling starves no cue.  The core-engagement reminder, which    *)
(* is generated on every tick and passes the context filter on every tick, *)
(* is eventually returned by process_analysis_data when ticks keep         *)
(* arriving and the clock advances.                                        *)
(***************************************************************************)
CoreEmitted == "core_engagement" \in TemplatesOf(emission_log)

\* every tick so far generated the core-engagement reminder
CoreGenerated ==
    cue_trace.kind = "process" =>
        "core_engagement" \in TemplatesOf(cue_trace.potential_cues)

CoreNeverEmitted == CoreGenerated /\ ~CoreEmitted

====
